---- MODULE Spec2Model ----
(***************************************************************************)
(* Model of the rank-monitoring / content-generation core of              *)
(* aeo-seo-helper (app/services.py, app/main.py, app/crud.py).            *)
(*                                                                         *)
(* Strings are sequences of one-character tokens.  An Optional value is   *)
(* a sequence of length 0 (None) or 1 (the value), so that None differs   *)
(* from the empty string.                                                  *)
(***************************************************************************)
EXTENDS Integers, Sequences, FiniteSets, TLC

VARIABLES
    url,          \* _extract_logno_from_url: the argument
    url_pc,       \* "ready" before the call, "done" after it
    logno_out,    \* the Optional[str] it returned
    scan_items,   \* _find_rank_in_items: the items argument
    scan_target,  \* its target_logno argument
    scan_pc,      \* "ready" before the call, "done" after it
    scan_out,     \* the Optional[int] it returned
    mk_pc,        \* POST /monitoring, per request: where the handler stands
    mk_in,        \* its form fields: keyword, blog_url
    mk_loc,       \* locals of check_naver_rank: window, target, the two ranks
    mk_svc,       \* what the search service answered, per category
    mk_calls,     \* the _call_naver_search_api calls the request made, in order
    mk_out,       \* what the handler hands to the template: error, result
    mk_rows,      \* table monitored_keywords, in insertion order
    mk_env,       \* the server and the world around it: requests handled at a
                  \* time, form fields sent, windows asked, service answers
    banned_raw,   \* generate_blog_post: the banned_terms form field
    banned_pc,    \* "ready" before the list is computed, "done" after it
    banned_out,   \* banned_terms_list
    norm_raw,     \* generate_blog_post: response.text of the service
    norm_pc,      \* "ready" before the post-processing, "done" after it
    norm_out,     \* the text generate_blog_post returns
    gen_pc,       \* POST /generator, per request: where the handler stands
    gen_in,       \* its form field core_keyword
    gen_svc,      \* what the generation service answered
    gen_calls,    \* number of generate_content calls the request made
    gen_content,  \* what generate_blog_post returned
    gen_out,      \* what the handler hands to the template: error, result
    articles,     \* table articles, in insertion order
    imp_pc,       \* POST /improvement, per request: where the handler stands
    imp_in,       \* its form fields: blog_url, core_keyword, email; the user
    imp_gets,     \* the URLs scrape_url_content sent a GET to, in order
    imp_loc,      \* locals: iframe_url, soup2 of the scrape; content, req_in
    imp_calls,    \* the generation requests analyze_blog_post_json made
    imp_resps,    \* the response texts it received, in order
    imp_ana,      \* the pair it returned: analysis_json, raw_text
    imp_out,      \* the JSON body the handler answers with
    imp_rows,     \* table improvement_requests, in insertion order
    sc_pc,        \* scrape_url_content called on its own: where it stands
    sc_url,       \* its argument url
    sc_gets,      \* the GETs it sent, in order: the URL and what came back
    sc_loc,       \* its locals iframe_url and soup2
    sc_res,       \* how the call ended: the text returned or the exception
    pr_pc,        \* generate_blog_post up to the prompt: "ready", "done"
    pr_in,        \* its arguments: core_keyword and the optional fields
    pr_out        \* the values the prompt template is filled with

urlVars == <<url, url_pc, logno_out>>

scanVars == <<scan_items, scan_target, scan_pc, scan_out>>

rankVars == <<mk_pc, mk_in, mk_loc, mk_svc, mk_calls, mk_out, mk_rows, mk_env>>

bannedVars == <<banned_raw, banned_pc, banned_out>>

normVars == <<norm_raw, norm_pc, norm_out>>

genVars == <<gen_pc, gen_in, gen_svc, gen_calls, gen_content, gen_out, articles>>

impVars ==
    <<imp_pc, imp_in, imp_gets, imp_loc, imp_calls, imp_resps, imp_ana, imp_out,
      imp_rows>>

scrVars == <<sc_pc, sc_url, sc_gets, sc_loc, sc_res>>

promptVars == <<pr_pc, pr_in, pr_out>>

vars ==
    <<urlVars, scanVars, rankVars, bannedVars, normVars, genVars, impVars,
      scrVars, promptVars>>

\* What the actions of one component leave alone.
notUrlVars ==
    <<scanVars, rankVars, bannedVars, normVars, genVars, impVars,
      scrVars, promptVars>>

notScanVars ==
    <<urlVars, rankVars, bannedVars, normVars, genVars, impVars,
      scrVars, promptVars>>

notRankVars ==
    <<urlVars, scanVars, bannedVars, normVars, genVars, impVars,
      scrVars, promptVars>>

notBannedVars ==
    <<urlVars, scanVars, rankVars, normVars, genVars, impVars,
      scrVars, promptVars>>

notNormVars ==
    <<urlVars, scanVars, rankVars, bannedVars, genVars, impVars,
      scrVars, promptVars>>

notGenVars ==
    <<urlVars, scanVars, rankVars, bannedVars, normVars, impVars,
      scrVars, promptVars>>

notImpVars ==
    <<urlVars, scanVars, rankVars, bannedVars, normVars, genVars,
      scrVars, promptVars>>

notScrVars ==
    <<urlVars, scanVars, rankVars, bannedVars, normVars, genVars, impVars,
      promptVars>>

notPromptVars ==
    <<urlVars, scanVars, rankVars, bannedVars, normVars, genVars, impVars,
      scrVars>>

-----------------------------------------------------------------------------
(* Generic helpers: Optional values and Python string primitives.          *)

None == <<>>

Some(x) == <<x>>

\* All sequences over S of length at most n.
BSeq(S, n) == UNION {[1..k -> S] : k \in 0..n}

\* Index of the first element of s at or after i that lies in set, 0 if none.
RECURSIVE IndexFrom(_, _, _)
IndexFrom(s, set, i) ==
    IF i > Len(s) THEN 0
    ELSE IF s[i] \in set THEN i
    ELSE IndexFrom(s, set, i + 1)

FirstIn(s, set) == IndexFrom(s, set, 1)

\* str.split(sep) for a one-character separator: always at least one piece.
RECURSIVE Split(_, _)
Split(s, sep) ==
    LET i == FirstIn(s, {sep})
    IN  IF i = 0 THEN <<s>>
        ELSE <<SubSeq(s, 1, i - 1)>> \o Split(SubSeq(s, i + 1, Len(s)), sep)

\* str.split(sep, 1): at most one cut, at the first separator.
Split1(s, sep) ==
    LET i == FirstIn(s, {sep})
    IN  IF i = 0 THEN <<s>>
        ELSE <<SubSeq(s, 1, i - 1), SubSeq(s, i + 1, Len(s))>>

\* Concatenation of a sequence of strings.
RECURSIVE Flatten(_)
Flatten(ss) == IF ss = <<>> THEN <<>> ELSE Head(ss) \o Flatten(Tail(ss))

\* Python's  t in s  for strings: t occurs in s as a contiguous substring.
Contains(s, t) ==
    \E i \in 0..(Len(s) - Len(t)) : SubSeq(s, i + 1, i + Len(t)) = t

\* The whitespace characters that occur in the inputs tried.
Whitespace == {" ", "\n"}

\* str.strip(): leading and trailing whitespace removed.
RECURSIVE LStrip(_)
LStrip(s) == IF s # <<>> /\ Head(s) \in Whitespace THEN LStrip(Tail(s)) ELSE s

RECURSIVE RStrip(_)
RStrip(s) ==
    IF s # <<>> /\ s[Len(s)] \in Whitespace
    THEN RStrip(SubSeq(s, 1, Len(s) - 1))
    ELSE s

\* A variant that strips nothing.
NoStrip(s) == s

\* s.strip()
Strip(s) == RStrip(LStrip(s))

-----------------------------------------------------------------------------
(* 4.1 Identifier extraction: urlparse, parse_qs, _extract_logno_from_url. *)

\* Scheme and host of an absolute URL, kept as one token; it holds the only
\* ':' of a URL, so nothing after it is read as a scheme.
Origin == "https://blog.naver.com"

\* The pieces a URL is written with after its origin.  "logNo" stands for
\* that five-letter word (it is written only in front of '=', to keep the
\* input set small); "sup2" is SUPERSCRIPT TWO (U+00B2), a character for
\* which str.isdigit() is true and which is no decimal digit.
\* Not represented: '%' and '+' (parse_qs decoding), ';' (urlparse params).
UrlWords ==
    {<<"/">>, <<"?">>, <<"&">>, <<"=">>, <<"#">>, <<"logNo", "=">>,
     <<"1">>, <<"2">>, <<"sup2">>}

DecimalChars == {"1", "2"}

\* Characters with the Unicode property Numeric_Type=Digit or Decimal.
DigitChars == DecimalChars \cup {"sup2"}

\* str.isdigit(): non-empty and every character is a digit character.
IsDigit(s) == Len(s) > 0 /\ \A i \in 1..Len(s) : s[i] \in DigitChars

\* urlparse(url): the netloc of an absolute URL runs to the first of "/?#";
\* then the fragment is cut at the first '#', then the query at the first '?'.
UrlParse(u) ==
    LET abs      == Len(u) > 0 /\ u[1] = Origin
        rest     == IF abs THEN Tail(u) ELSE u
        d        == FirstIn(rest, {"/", "?", "#"})
        afterLoc == IF ~abs THEN rest
                    ELSE IF d = 0 THEN <<>>
                    ELSE SubSeq(rest, d, Len(rest))
        byFrag   == Split1(afterLoc, "#")
        byQuery  == Split1(byFrag[1], "?")
    IN  [path     |-> byQuery[1],
         query    |-> IF Len(byQuery) = 2 THEN byQuery[2] ELSE <<>>,
         fragment |-> IF Len(byFrag) = 2 THEN byFrag[2] ELSE <<>>]

\* parse_qs(query) with its defaults (keep_blank_values=False, separator '&'):
\* the <<name, value>> pairs kept, in order.  A field without '=' or with an
\* empty value is dropped; the value runs to the end of the field.
ParseQsPairs(query) ==
    LET fields == Split(query, "&")
        nv(f)  == Split1(f, "=")
        kept(f) == Len(f) > 0 /\ Len(nv(f)) = 2 /\ Len(nv(f)[2]) > 0
        keptFields == SelectSeq(fields, kept)
    IN  [i \in 1..Len(keptFields) |-> nv(keptFields[i])]

\* qs[name]: the values collected under one name, in order (<<>> if absent).
QsValues(pairs, name) ==
    LET hit(p) == p[1] = name
        hits   == SelectSeq(pairs, hit)
    IN  [i \in 1..Len(hits) |-> hits[i][2]]

NonEmpty(p) == Len(p) > 0

PathParts(path) == SelectSeq(Split(path, "/"), NonEmpty)

\* A variant that infers from the path before it looks at the query.
ExtractLognoPathFirst(u) ==
    LET parsed == UrlParse(u)
        values == QsValues(ParseQsPairs(parsed.query), <<"logNo">>)
        parts  == PathParts(parsed.path)
    IN  IF Len(parts) > 0 /\ IsDigit(parts[Len(parts)]) THEN Some(parts[Len(parts)])
        ELSE IF Len(values) > 0 THEN Some(values[1])
        ELSE None

\* _extract_logno_from_url(url)
ExtractLogno(u) ==
    LET parsed == UrlParse(u)
        values == QsValues(ParseQsPairs(parsed.query), <<"logNo">>)
        parts  == PathParts(parsed.path)
    IN  IF Len(values) > 0 THEN Some(values[1])
        ELSE IF Len(parts) > 0 /\ IsDigit(parts[Len(parts)]) THEN Some(parts[Len(parts)])
        ELSE None

-----------------------------------------------------------------------------
(* 4.3 Rank scan: _find_rank_in_items.                                     *)

\* A search result item is a dict; its "link" key may be missing.
LinkChars == {"1", "2"}

\* Longest link tried, longest target id tried, longest item list scanned.
MaxLinkLen == 2

MaxTargetLen == 2

MaxScanItems == 3

LinkItem(l) == [link |-> l]

NoLinkItem == [title |-> <<"t">>]

\* dict.get(key, default)
DictGet(d, key, default) == IF key \in DOMAIN d THEN d[key] ELSE default

ScanItemKinds == {LinkItem(l) : l \in BSeq(LinkChars, MaxLinkLen)} \cup {NoLinkItem}

\* A variant that reports the 0-based index of the match.
RECURSIVE FindRankZeroBasedFrom(_, _, _)
FindRankZeroBasedFrom(items, target, idx) ==
    IF idx >= Len(items) THEN None
    ELSE IF Len(target) > 0 /\ Contains(DictGet(items[idx + 1], "link", <<>>), target)
         THEN Some(idx)
         ELSE FindRankZeroBasedFrom(items, target, idx + 1)

FindRankZeroBased(items, target) == FindRankZeroBasedFrom(items, target, 0)

\* The loop of _find_rank_in_items from 0-based position idx on.
RECURSIVE FindRankFrom(_, _, _)
FindRankFrom(items, target, idx) ==
    IF idx >= Len(items) THEN None
    ELSE LET link == DictGet(items[idx + 1], "link", <<>>)
         IN  IF Len(target) > 0 /\ Contains(link, target)
             THEN Some(idx + 1)
             ELSE FindRankFrom(items, target, idx + 1)

\* _find_rank_in_items(items, target_logno)
FindRankInItems(items, target) == FindRankFrom(items, target, 0)


-----------------------------------------------------------------------------
(* 4.3 Rank lookup: check_naver_rank, and POST /monitoring around it.      *)

\* The requests the model follows, and the one signed-in user.
Requests == {"r1", "r2"}

UserId == 1

\* Form fields tried: blank, whitespace-only and real ones.
MonKeywords == {<<>>, <<" ">>, <<"k">>}

MonUrls ==
    {<<>>, <<" ">>,
     <<Origin, "/", "x">>,
     <<Origin, "/", "1", "2">>,
     <<Origin, "/", "1", "2", "?", "logNo", "=", "2", "2">>}

\* Largest window (max_rank_to_check) tried; the handler passes the default,
\* the function takes any.  Longest item list the service answers with: the
\* display parameter is a request, the code does not cut the answer.
MaxWindow == 1

MaxItems == 2

\* Items the search service answers with.
SvcItemKinds ==
    {LinkItem(<<"/", "1", "2">>), LinkItem(<<"/", "2", "2">>), NoLinkItem}

NotCalled == [st |-> "none", items |-> <<>>]

Failed == [st |-> "failed", items |-> <<>>]

Answered(items) == [st |-> "ok", items |-> items]

\* Every outcome of one _call_naver_search_api call plus the scan of its
\* items: an exception (credentials missing, network, HTTP status, malformed
\* body) or a JSON body with its items.
SvcOutcomes == {Failed} \cup {Answered(items) : items \in BSeq(SvcItemKinds, MaxItems)}

\* One request at a time, every form field and service answer tried.
RankEnvSequential ==
    [workers |-> 1, keywords |-> MonKeywords, urls |-> MonUrls,
     windows |-> 1..MaxWindow, outcomes |-> SvcOutcomes]

\* Several workers: the requests run side by side, on fewer inputs.
RankEnvConcurrent ==
    [workers |-> 2, keywords |-> {<<"k">>},
     urls |-> {<<Origin, "/", "x">>, <<Origin, "/", "1", "2">>},
     windows |-> {2},
     outcomes |-> {Failed, Answered(<<>>),
                   Answered(<<LinkItem(<<"/", "1", "2">>)>>),
                   Answered(<<LinkItem(<<"/", "2", "2">>),
                              LinkItem(<<"/", "1", "2">>)>>)}]

\* One worker, every form input, blank ones included, a few answers.
RankEnvForms ==
    [workers |-> 1, keywords |-> MonKeywords, urls |-> MonUrls,
     windows |-> {1},
     outcomes |-> {Failed, Answered(<<>>),
                   Answered(<<LinkItem(<<"/", "1", "2">>)>>)}]

RankEnvOff ==
    [workers |-> 0, keywords |-> {}, urls |-> {}, windows |-> {}, outcomes |-> {}]

NoInput == [keyword |-> <<>>, blog_url |-> <<>>]

NoLocals == [window |-> 0, target |-> None, blog_rank |-> None, web_rank |-> None]

NoSvc == [blog |-> NotCalled, web |-> NotCalled]

NoOut == [error |-> None, result |-> None]

\* A variant that leaves display at the default of _call_naver_search_api.
SearchCallDefaultDisplay(type, keyword, window) ==
    [search_type |-> type, query |-> keyword, display |-> 10, start |-> 1]

\* The arguments of _call_naver_search_api as check_naver_rank passes them.
SearchCall(type, keyword, window) ==
    [search_type |-> type, query |-> keyword, display |-> window, start |-> 1]

\* A variant that keeps one row per user, keyword and URL, updated in place.
UpsertMonitoredKeyword(rows, user_id, m) ==
    LET same(i) == /\ rows[i].user_id = user_id
                   /\ rows[i].keyword = m.keyword
                   /\ rows[i].blog_url = m.blog_url
    IN  IF \E i \in 1..Len(rows) : same(i)
        THEN [i \in 1..Len(rows) |->
                IF same(i)
                THEN [rows[i] EXCEPT !.log_no = m.log_no, !.web_rank = m.web_rank,
                                     !.blog_rank = m.blog_rank]
                ELSE rows[i]]
        ELSE Append(rows, [id |-> Len(rows) + 1, user_id |-> user_id,
                           keyword |-> m.keyword, blog_url |-> m.blog_url,
                           log_no |-> m.log_no, web_rank |-> m.web_rank,
                           blog_rank |-> m.blog_rank])

\* crud.create_monitored_keyword: the table after a committed insert (the
\* timestamps are left out).
CreateMonitoredKeyword(rows, user_id, m) ==
    Append(rows, [id |-> Len(rows) + 1, user_id |-> user_id,
                  keyword |-> m.keyword, blog_url |-> m.blog_url,
                  log_no |-> m.log_no, web_rank |-> m.web_rank,
                  blog_rank |-> m.blog_rank])

\* A variant that keeps the ranks in module-level variables, which the
\* request that ran first has set.
RankInfoShared(in, loc) ==
    [keyword |-> in.keyword, blog_url |-> in.blog_url, log_no |-> loc.target,
     web_rank |-> mk_loc["r1"].web_rank, blog_rank |-> mk_loc["r1"].blog_rank]

\* The dict check_naver_rank returns.
RankInfo(in, loc) ==
    [keyword |-> in.keyword, blog_url |-> in.blog_url, log_no |-> loc.target,
     web_rank |-> loc.web_rank, blog_rank |-> loc.blog_rank]

\* not target_logno: None and the empty string are both falsy.
LognoMissingNever(t) == FALSE

LognoMissing(t) == t = None \/ t = Some(<<>>)

\* The string a falsy-or-present Optional[str] is used as.
TargetStr(t) == IF t = None THEN <<>> ELSE t[1]

\* A variant with no except clause: the failure leaves check_naver_rank.
PcAfterTryUncaught(o, next) == IF o.st = "failed" THEN "list" ELSE next

\* try: ... except Exception as e: print(...).  Whatever the outcome, control
\* goes on after the try statement.
PcAfterTry(o, next) == next

\* A variant that marks a failed call with rank 0.
CategoryRankFailureZero(o, target) ==
    IF o.st = "ok" THEN FindRankInItems(o.items, target) ELSE Some(0)

\* The rank a category's try block leaves: assigned from the scan when the
\* call and the scan went through, the initial None otherwise.
CategoryRank(o, target) ==
    IF o.st = "ok" THEN FindRankInItems(o.items, target) ELSE None

BlankInputError == <<"blank_input">>

\* f"순위 확인 중 오류가 발생했습니다: {e}": the wrapping text and the cause.
RankCheckError(cause) == <<"rank_check_error", cause>>

-----------------------------------------------------------------------------
(* 4.4 Generation request builder: the banned-terms list.                  *)

\* One token per character; a Hangul syllable is written by its romanised
\* name ("hyo" "gwa" is the two-character word 효과).
DefaultBanned ==
    << <<"hyo", "gwa">>,
       <<"hyo", "neung">>,
       <<"gae", "seon">>,
       <<"ju", "reum", "gae", "seon">>,
       <<"tan", "ryeok", "gae", "seon">>,
       <<"ri", "peu", "ting">>,
       <<"an", "ti", "e", "i", "jing">>,
       <<"chi", "ryo">>,
       <<"chi", "yu">>,
       <<"hoe", "bok">>,
       <<"tong", "jeung", " ", "wan", "hwa">>,
       <<"seu", "teu", "re", "seu", " ", "wan", "hwa">>,
       <<"im", "sang">>,
       <<"im", "sang", "eu", "ro", " ", "ip", "jeung">> >>

\* The Unicode code point of a character: Python orders strings by it.
CodePoint(c) ==
    CASE c = " " -> 32
      [] c = "," -> 44
      [] c = "A" -> 65
      [] c = "a" -> 97
      [] c = "gae" -> 44060
      [] c = "gwa" -> 44284
      [] c = "neung" -> 45733
      [] c = "re" -> 47112
      [] c = "ryeok" -> 47141
      [] c = "ro" -> 47196
      [] c = "ryo" -> 47308
      [] c = "reum" -> 47492
      [] c = "ri" -> 47532
      [] c = "bok" -> 48373
      [] c = "sang" -> 49345
      [] c = "seon" -> 49440
      [] c = "seu" -> 49828
      [] c = "an" -> 50504
      [] c = "e" -> 50640
      [] c = "wan" -> 50756
      [] c = "yu" -> 50976
      [] c = "eu" -> 51004
      [] c = "i" -> 51060
      [] c = "im" -> 51076
      [] c = "ip" -> 51077
      [] c = "ju" -> 51452
      [] c = "jeung" -> 51613
      [] c = "jing" -> 51669
      [] c = "chi" -> 52824
      [] c = "tan" -> 53444
      [] c = "tong" -> 53685
      [] c = "teu" -> 53944
      [] c = "ti" -> 54000
      [] c = "ting" -> 54021
      [] c = "peu" -> 54532
      [] c = "hwa" -> 54868
      [] c = "hoe" -> 54924
      [] c = "hyo" -> 54952

\* Python's  a < b  for strings: by code point, a proper prefix first.
RECURSIVE StrLess(_, _)
StrLess(a, b) ==
    IF b = <<>> THEN FALSE
    ELSE IF a = <<>> THEN TRUE
    ELSE IF CodePoint(Head(a)) # CodePoint(Head(b))
         THEN CodePoint(Head(a)) < CodePoint(Head(b))
         ELSE StrLess(Tail(a), Tail(b))

\* set(list)
ToSet(list) == {list[i] : i \in 1..Len(list)}

\* x put at its place in an ascending list that does not hold it.
InsertSorted(list, x) ==
    LET k == Cardinality({i \in 1..Len(list) : StrLess(list[i], x)})
    IN  SubSeq(list, 1, k) \o <<x>> \o SubSeq(list, k + 1, Len(list))

\* sorted(a set of strings): ascending, whatever order the set is read in.
RECURSIVE Sorted(_)
Sorted(S) ==
    IF S = {} THEN <<>>
    ELSE LET x == CHOOSE y \in S : TRUE
         IN  InsertSorted(Sorted(S \ {x}), x)

\* The characters the banned_terms field is written with.
BannedChars == {",", " ", "a", "A", "hyo", "gwa"}

\* Longest banned_terms field tried.
MaxBannedLen == 5

\* _split_csv(text)
SplitCsv(text) ==
    IF text = None \/ text = Some(<<>>) THEN <<>>
    ELSE LET pieces == Split(text[1], ",")
             keep(x) == Strip(x) # <<>>
             kept == SelectSeq(pieces, keep)
         IN  [i \in 1..Len(kept) |-> Strip(kept[i])]

\* A variant that joins the two lists as they are.
BannedTermsConcat(raw) == DefaultBanned \o SplitCsv(raw)

\* banned_terms_list = sorted(set(default_banned + user_banned))
BannedTerms(raw) == Sorted(ToSet(DefaultBanned \o SplitCsv(raw)))

-----------------------------------------------------------------------------
(* 4.4 Response normalizer and POST /generator.                            *)

\* The characters the service's text is written with.  Of the line
\* boundaries str.splitlines() knows, "\n" is the one represented.
TextChars == {"<", "p", " ", "\n", "x"}

\* Longest service text tried.
MaxTextLen == 5

ParagraphMarker == <<"<", "p">>

\* f"<p>{line}</p>"
WrapP(line) == <<"<", "p", ">">> \o line \o <<"<", "/", "p", ">">>

\* str.splitlines(): no line for an empty string, none after a final "\n".
SplitLines(s) ==
    IF s = <<>> THEN <<>>
    ELSE LET parts == Split(s, "\n")
         IN  IF parts[Len(parts)] = <<>>
             THEN SubSeq(parts, 1, Len(parts) - 1)
             ELSE parts

\* sep.join(list)
RECURSIVE Join(_, _)
Join(sep, list) ==
    IF list = <<>> THEN <<>>
    ELSE IF Len(list) = 1 THEN list[1]
    ELSE list[1] \o sep \o Join(sep, Tail(list))

\* A variant that wraps every line, blank ones too.
NormalizeTextKeepBlank(response_text) ==
    LET text == Strip(IF response_text = None THEN <<>> ELSE response_text[1])
    IN  IF ~Contains(text, ParagraphMarker)
        THEN LET lines == SplitLines(text)
             IN  Join(<<"\n">>, [i \in 1..Len(lines) |-> WrapP(Strip(lines[i]))])
        ELSE text

\* generate_blog_post, from response.text to the returned text.
NormalizeText(response_text) ==
    LET text == Strip(IF response_text = None THEN <<>> ELSE response_text[1])
    IN  IF ~Contains(text, ParagraphMarker)
        THEN LET nonBlank(l) == Strip(l) # <<>>
                 lines == SelectSeq(SplitLines(text), nonBlank)
             IN  Join(<<"\n">>, [i \in 1..Len(lines) |-> WrapP(Strip(lines[i]))])
        ELSE text

\* The POST /generator requests the model follows.
GenRequests == {"g1", "g2"}

GenKeywords == {<<>>, <<" ">>, <<"k">>}

\* response.text values the handler runs are tried with.
GenTexts ==
    {None, Some(<<>>), Some(<<"x">>), Some(<<" ", "x", "\n", "\n", "x">>),
     Some(<<"<", "p", ">", "x", "<", "/", "p", ">", "\n">>)}

\* What a failed generate_content call says.
GenCauses == {"quota", "timeout"}

GenNotCalled == [st |-> "none", text |-> None, cause |-> ""]

GenFailed(cause) == [st |-> "failed", text |-> None, cause |-> cause]

GenAnswered(text) == [st |-> "ok", text |-> text, cause |-> ""]

\* Every outcome of model.generate_content(...) and response.text.
GenOutcomes ==
    {GenFailed(c) : c \in GenCauses} \cup {GenAnswered(t) : t \in GenTexts}

\* A variant that calls the service once more after a failure.
GenerateAttemptsRetry(o) == IF o.st = "failed" THEN 2 ELSE 1

\* The generate_content calls one generate_blog_post run makes: the call is
\* in no loop, and the except clause raises without calling again.
GenerateAttempts(o) == 1

\* RuntimeError(f"Gemini 호출 실패: {e}")
GenerationError(cause) == <<"gemini_call_failed", cause>>

\* f"원고 생성 중 오류가 발생했습니다: {e}"
GeneratorPageError(e) == <<"generation_error", e>>

KeywordRequiredError == <<"core_keyword_required">>

\* The exception of a failed insert leaves the handler: FastAPI answers 500.
UnhandledError == <<"internal_server_error">>

\* crud.create_article: the table after a committed insert (title, the other
\* form fields and created_at are left out).
CreateArticle(rows, user_id, core_keyword, content) ==
    Append(rows, [id |-> Len(rows) + 1, user_id |-> user_id,
                  core_keyword |-> core_keyword, content |-> content])

-----------------------------------------------------------------------------
(* 4.4 Generation request builder: defaults and the values of the prompt.  *)

\* The optional fields of generate_blog_post that have a default.
OptionalFields ==
    {"product_name", "brand", "target_audience", "intent", "persona", "tone",
     "additional_instructions", "product_detail_text", "cta_text"}

\* The default of each of them.
Defaults ==
    [product_name            |-> <<"(", "je", "pum", "myeong", " ", "mi", "ip", "ryeok", ")">>,
     brand                   |-> <<"(", "beu", "raen", "deu", " ", "mi", "ip", "ryeok", ")">>,
     target_audience         |-> <<"(", "ta", "get", " ", "mi", "ip", "ryeok", ")">>,
     intent                  |-> <<"jeong", "bo", "hyeong", " ", "ri", "byu">>,
     persona                 |-> <<"gae", "in", "beul", "lo", "geo">>,
     tone                    |-> <<"chin", "geun", "+", "jeon", "mun">>,
     additional_instructions |-> <<"(", "chu", "ga", " ", "yo", "cheong", " ", "eop", "seum", ")">>,
     product_detail_text     |-> <<"(", "byeol", "do", " ", "je", "pum", " ", "beu", "ri", "peu", " ", "eop", "seum", ")">>,
     cta_text                |-> <<"gu", "dok">>]

\* A variant of x or d that replaces a missing value only.
OrDefaultNoneOnly(x, d) == IF x = None THEN d ELSE x[1]

\* x or d: d when x is None or the empty string.
OrDefault(x, d) == IF x = None \/ x = Some(<<>>) THEN d ELSE x[1]

\* The line that stands for an empty must_keywords / must_headings list.
NotSpecifiedLine == <<"-", " ", "(", "ji", "jeong", " ", "eop", "seum", ")">>

\* must_keywords_block, must_headings_block: one "- item" line per item.
ItemsBlock(items) ==
    IF items # <<>>
    THEN Join(<<"\n">>, [i \in 1..Len(items) |-> <<"-", " ">> \o items[i]])
    ELSE NotSpecifiedLine

\* banned_terms_str
BannedTermsStr(raw) ==
    LET banned_terms_list == BannedTerms(raw)
    IN  IF banned_terms_list # <<>>
        THEN Join(<<",", " ">>, banned_terms_list)
        ELSE <<"eop", "seum">>

\* The values generate_blog_post fills the two prompt templates with.
PromptValues(a) ==
    [f \in OptionalFields |-> OrDefault(a[f], Defaults[f])]
    @@ [core_keyword        |-> a.core_keyword,
        must_keywords_block |-> ItemsBlock(SplitCsv(a.must_keywords)),
        must_headings_block |-> ItemsBlock(SplitCsv(a.must_headings)),
        banned_terms_str    |-> BannedTermsStr(a.banned_terms)]

\* The arguments generate_post calls generate_blog_post with: a core keyword
\* that passed its test, each optional field missing, empty or filled in
\* (the tone with a blank, which is a value like any other).
PromptArgs ==
    LET values == {None, Some(<<>>), Some(<<"v">>)}
    IN  {opt @@ [core_keyword  |-> kw, tone |-> tn, must_keywords |-> mk,
                 must_headings |-> mh, banned_terms |-> None] :
            opt \in [OptionalFields \ {"tone"} -> values],
            kw \in {k \in GenKeywords : Strip(k) # <<>>},
            tn \in {None, Some(<<>>), Some(<<" ">>)},
            mk \in {Some(<<",">>), Some(<<"a", ",", " ", "b">>)},
            mh \in {None, Some(<<"h">>)}}

-----------------------------------------------------------------------------
(* 4.2 Content fetcher: scrape_url_content.                                *)

\* What a function call ends with: a returned value or a raised exception.
Return(v) == [st |-> "return", value |-> v]

Raise(e) == [st |-> "raise", error |-> e]

\* selectors, in the order the loop tries them.
Selectors ==
    <<"div.se-main-container", "#postViewArea", "div#postViewArea",
      "div#contentArea">>

\* A parsed document as far as the code looks at it.  iframe: None when there
\* is no iframe#mainFrame, else Some(its src attribute, itself None when the
\* attribute is missing).  nodes[i]: None when selector i matches nothing,
\* else Some(get_text of the first match).  body: None when there is no body
\* element, else Some(its get_text).  get_text(strip=True) gives text without
\* surrounding whitespace, possibly empty.
Doc(iframe, nodes, body) == [iframe |-> iframe, nodes |-> nodes, body |-> body]

NoNodes == [i \in 1..Len(Selectors) |-> None]

\* The documents the GETs of the handler runs answer with.
ImpDocs ==
    {Doc(None, [NoNodes EXCEPT ![1] = Some(<<"t">>)], Some(<<"b">>)),
     Doc(None, [NoNodes EXCEPT ![2] = Some(<<>>)], Some(<<"b">>)),
     Doc(None, NoNodes, None),
     Doc(None, NoNodes, Some(<<>>)),
     Doc(Some(None), NoNodes, Some(<<"b">>)),
     Doc(Some(Some(<<"/", "f">>)), NoNodes, Some(<<"b">>)),
     Doc(Some(Some(<<"h", ":", "/", "f">>)), NoNodes, Some(<<"b">>))}

\* What makes requests.get or raise_for_status raise.
GetCauses == {"timeout", "status"}

GetFailed(cause) == [st |-> "failed", cause |-> cause]

GetAnswered(doc) == [st |-> "ok", doc |-> doc]

GetOutcomes ==
    {GetFailed(c) : c \in GetCauses} \cup {GetAnswered(d) : d \in ImpDocs}

\* The exceptions of scrape_url_content, by what their message says.
FetchError(cause) == <<"fetch_failed", cause>>

IframeSrcError == <<"iframe_src_missing">>

NoBodyError == <<"no_body">>

EmptyTextError == <<"empty_text">>

\* not iframe_src: a missing attribute and an empty one are both falsy.
IframeSrcMissing(src) == src = None \/ src = Some(<<>>)

\* iframe_url: a src starting with "/" gets the blog origin in front.
IframeUrl(src) == IF Head(src) = "/" THEN <<Origin>> \o src ELSE src

max_len == 8000

\* A variant that keeps the end of the text, text[-max_len:].
TruncateTail(text) ==
    IF Len(text) > max_len
    THEN SubSeq(text, Len(text) - max_len + 1, Len(text))
    ELSE text

\* text[:max_len]
Truncate(text) == IF Len(text) > max_len THEN SubSeq(text, 1, max_len) ELSE text

\* Position of the first selector that matches a node, 0 if none does.
RECURSIVE FirstMatchFrom(_, _)
FirstMatchFrom(nodes, i) ==
    IF i > Len(nodes) THEN 0
    ELSE IF nodes[i] # None THEN i
    ELSE FirstMatchFrom(nodes, i + 1)

\* A variant whose loop goes on past a container without text.
RECURSIVE FirstTextFrom(_, _)
FirstTextFrom(nodes, i) ==
    IF i > Len(nodes) THEN 0
    ELSE IF nodes[i] # None /\ nodes[i][1] # <<>> THEN i
    ELSE FirstTextFrom(nodes, i + 1)

ExtractContentPastEmpty(soup2) ==
    LET k == FirstTextFrom(soup2.nodes, 1)
        text == IF k = 0 THEN <<>> ELSE soup2.nodes[k][1]
    IN  IF Strip(text) # <<>> THEN Return(Truncate(text))
        ELSE IF soup2.body = None THEN Raise(NoBodyError)
        ELSE IF Strip(soup2.body[1]) = <<>> THEN Raise(EmptyTextError)
        ELSE Return(Truncate(soup2.body[1]))

\* A variant without the two checks of the body.
ExtractContentUnchecked(soup2) ==
    LET k == FirstMatchFrom(soup2.nodes, 1)
        text == IF k = 0 THEN <<>> ELSE soup2.nodes[k][1]
    IN  IF Strip(text) # <<>> THEN Return(Truncate(text))
        ELSE IF soup2.body = None THEN Return(<<>>)
        ELSE Return(Truncate(soup2.body[1]))

\* scrape_url_content from the selector loop on: the text of the first
\* matching container, the body's text when that is blank, an exception when
\* there is no body or its text is blank too; cut to max_len.
ExtractContent(soup2) ==
    LET k == FirstMatchFrom(soup2.nodes, 1)
        text == IF k = 0 THEN <<>> ELSE soup2.nodes[k][1]
    IN  IF Strip(text) # <<>> THEN Return(Truncate(text))
        ELSE IF soup2.body = None THEN Raise(NoBodyError)
        ELSE IF Strip(soup2.body[1]) = <<>> THEN Raise(EmptyTextError)
        ELSE Return(Truncate(soup2.body[1]))

\* scrape_url_content called on its own: the URLs it is called with.
ScrUrls == {<<Origin, "/", "1", "2">>, <<Origin, "/", "x">>}

\* A text of n characters whose characters past max_len differ from those
\* before it.
LongText(n) == [i \in 1..n |-> IF i <= max_len THEN "a" ELSE "z"]

\* What iframe#mainFrame can look like: absent; without src; with an empty
\* src; with a src that starts with "/", that is a full URL, that is a
\* relative path without a leading "/".
ScrIframes ==
    {None, Some(None), Some(Some(<<>>)), Some(Some(<<"/", "f">>)),
     Some(Some(<<Origin, "/", "f">>)), Some(Some(<<"f">>))}

\* Which selectors match, and the text of what they match.
ScrNodes ==
    {NoNodes,
     [NoNodes EXCEPT ![1] = Some(<<"t">>)],
     [NoNodes EXCEPT ![1] = Some(<<>>), ![2] = Some(<<"u">>)],
     [NoNodes EXCEPT ![2] = Some(<<"u">>), ![4] = Some(<<"w">>)],
     [NoNodes EXCEPT ![3] = Some(<<>>)],
     [NoNodes EXCEPT ![4] = Some(<<"w">>)]}

ScrBodies == {None, Some(<<>>), Some(<<"b">>)}

\* The documents a GET of scrape_url_content is answered with: the short
\* ones in every combination, and documents whose text is about max_len long.
ScrDocs ==
    {Doc(f, n, b) : f \in ScrIframes, n \in ScrNodes, b \in ScrBodies}
    \cup {Doc(None, [NoNodes EXCEPT ![1] = Some(LongText(k))], Some(<<"b">>)) :
            k \in {max_len - 1, max_len, max_len + 1}}
    \cup {Doc(None, NoNodes, Some(LongText(max_len + 2)))}

\* requests.get raises MissingSchema, before anything is sent, for a URL
\* without a scheme.
HasScheme(u) == Len(u) > 0 /\ u[1] = Origin

\* What requests.get(u) and raise_for_status can come to.
ScrOutcomes(u) ==
    IF HasScheme(u)
    THEN {GetFailed(c) : c \in GetCauses} \cup {GetAnswered(d) : d \in ScrDocs}
    ELSE {GetFailed("schema")}

-----------------------------------------------------------------------------
(* 4.5 Structured-analysis normalizer: analyze_blog_post_json, which       *)
(* app/main.py calls and app/services.py of this tree does not define; it  *)
(* is modelled from sections 3 and 4.5 of the specification.               *)

\* max_retries as improvement_action passes it.
max_retries == 1

\* What one generation request is made of.
AnalysisRequest(blog_text, core_keyword, blog_url) ==
    [blog_text |-> blog_text, core_keyword |-> core_keyword, blog_url |-> blog_url]

\* Response texts of the generation service.  A JSON object is written
\* "{" members "}", one token per member: "summary" a summary string,
\* "extra" a key the schema does not know, "issue_no_title" an issues list
\* whose item has no title, "faq_no_a" a faq list whose item has no answer.
\* The last text is Markdown.
AnaTexts ==
    {<<"{", "summary", "}">>,
     <<"{", "summary", "extra", "}", "\n">>,
     <<"{", "faq_no_a", "}">>,
     <<"{", "issue_no_title", "}">>,
     <<"m", "d", "\n">>}

AnaFailed(cause) == [st |-> "failed", cause |-> cause]

AnaAnswered(text) == [st |-> "ok", text |-> text]

AnaOutcomes ==
    {AnaFailed(c) : c \in GenCauses} \cup {AnaAnswered(t) : t \in AnaTexts}

\* The response text parsed as a JSON object: its members in order, None
\* when the text is not an object.
ParseJson(text) ==
    LET t == Strip(text)
    IN  IF Len(t) >= 2 /\ t[1] = "{" /\ t[Len(t)] = "}"
        THEN Some(SubSeq(t, 2, Len(t) - 1))
        ELSE None

\* Membership in a sequence.
Has(list, x) == \E i \in 1..Len(list) : list[i] = x

\* The AnalysisResult shape of the specification: every field optional or
\* defaulted, each issue with a title, unknown fields let through.
AnalysisShapeValid(obj) == ~Has(obj, "issue_no_title")

\* The service failed: the generation error with its cause.
AnalysisError(cause) == <<"analysis_call_failed", cause>>

AnalysisPair(analysis_json, raw_text) ==
    [analysis_json |-> analysis_json, raw_text |-> raw_text]

\* A variant that keeps the first response's text as the raw text.
AfterResponseFirstText(resps, retries) ==
    LET obj == ParseJson(resps[Len(resps)])
    IN  IF obj # None /\ AnalysisShapeValid(obj[1])
        THEN Return(AnalysisPair(obj, Some(resps[1])))
        ELSE IF Len(resps) < 1 + retries
        THEN [st |-> "retry"]
        ELSE Return(AnalysisPair(None, Some(resps[1])))

\* A variant that raises when the retries are used up.
AfterResponseRaising(resps, retries) ==
    LET text == resps[Len(resps)]
        obj == ParseJson(text)
    IN  IF obj # None /\ AnalysisShapeValid(obj[1])
        THEN Return(AnalysisPair(obj, Some(text)))
        ELSE IF Len(resps) < 1 + retries
        THEN [st |-> "retry"]
        ELSE Raise(AnalysisError("schema"))

\* analyze_blog_post_json after a response arrived, resps being the texts
\* received so far: a response that validates ends the call with (object,
\* its text); one that does not is retried while fewer than 1 + max_retries
\* requests were made, and ends the call with (None, its text) after that.
AfterResponse(resps, retries) ==
    LET text == resps[Len(resps)]
        obj == ParseJson(text)
    IN  IF obj # None /\ AnalysisShapeValid(obj[1])
        THEN Return(AnalysisPair(obj, Some(text)))
        ELSE IF Len(resps) < 1 + retries
        THEN [st |-> "retry"]
        ELSE Return(AnalysisPair(None, Some(text)))

-----------------------------------------------------------------------------
(* POST /improvement: improvement_action around the two.                   *)

ImpRequests == {"i1", "i2"}

ImpUrls == {<<Origin, "/", "1", "2">>}

ImpKeywords == {<<"k">>}

\* The email form field: not sent, an address, not an address.
ImpEmails == {None, Some(<<"a", "@", "b", ".", "c">>), Some(<<"a">>)}

\* current_user: anonymous or signed in.
ImpUsers == {None, Some(UserId)}

NoImpInput == [blog_url |-> <<>>, core_keyword |-> <<>>, email |-> None, user |-> None]

NoImpLocals == [iframe_url |-> None, soup2 |-> None, content |-> None, req_in |-> None]

\* EmailStr: a local part, "@", and a domain with a dot inside.
IsEmail(s) ==
    LET parts == Split(s, "@")
    IN  /\ Len(parts) = 2
        /\ parts[1] # <<>>
        /\ LET labels == Split(parts[2], ".")
           IN  Len(labels) >= 2 /\ \A i \in 1..Len(labels) : labels[i] # <<>>

\* schemas.ImprovementAnalysis accepts the object: ImprovementIssue needs a
\* title, ImprovementFAQ needs q and a, extra keys are allowed.
ImprovementAnalysisValid(obj) ==
    /\ ~Has(obj, "issue_no_title")
    /\ ~Has(obj, "faq_no_a")

\* schemas.ImprovementRequestCreate accepts the payload.
ImprovementRequestValid(payload) ==
    /\ payload.email = None \/ IsEmail(payload.email[1])
    /\ payload.analysis_json = None
         \/ ImprovementAnalysisValid(payload.analysis_json[1])

ValidationError == <<"validation_error">>

DbError == <<"db_error">>

\* analysis_md
AnalysisMd(raw_text) == Strip(IF raw_text = None THEN <<>> ELSE raw_text[1])

Payload(in, analysis_json, analysis_md) ==
    [email |-> in.email, blog_url |-> in.blog_url,
     core_keyword |-> in.core_keyword, analysis_md |-> analysis_md,
     analysis_json |-> analysis_json,
     analysis_version |-> IF analysis_json # None THEN Some("v1") ELSE None]

\* A variant without the except ValidationError clause.
ReqInNoFallback(payload) ==
    IF ImprovementRequestValid(payload) THEN Return(payload)
    ELSE Raise(ValidationError)

\* A variant whose fallback sets the analysis to None and keeps its version.
ReqInKeepsVersion(payload) ==
    IF ImprovementRequestValid(payload) THEN Return(payload)
    ELSE LET fallback == [payload EXCEPT !.analysis_json = None]
         IN  IF ImprovementRequestValid(fallback) THEN Return(fallback)
             ELSE Raise(ValidationError)

\* req_in: the payload validated, validated again with the analysis and its
\* version set to None after a ValidationError; the second ValidationError
\* leaves the inner try.
ReqIn(payload) ==
    IF ImprovementRequestValid(payload) THEN Return(payload)
    ELSE LET fallback == [payload EXCEPT !.analysis_json = None,
                                         !.analysis_version = None]
         IN  IF ImprovementRequestValid(fallback) THEN Return(fallback)
             ELSE Raise(ValidationError)

\* The fields ImprovementAnalysis declares, in order.
AnalysisFields ==
    <<"summary", "scores", "metrics", "issues", "rewrite_plan",
      "suggested_outline", "faq", "video_slots", "final_checklist", "raw_text">>

\* crud._to_json_text of the validated model: model_dump gives every declared
\* field, then the extra keys; json.dumps writes them as one object.
ToJsonText(analysis_json) ==
    IF analysis_json = None THEN None
    ELSE LET undeclared(m) == ~Has(AnalysisFields, m)
         IN  Some(<<"{">> \o AnalysisFields
                  \o SelectSeq(analysis_json[1], undeclared) \o <<"}">>)

\* crud.create_improvement_request: the table after a committed insert (the
\* contact fields other than email and created_at are left out).
CreateImprovementRequest(rows, user_id, req_in) ==
    Append(rows, [id |-> Len(rows) + 1, user_id |-> user_id,
                  email |-> req_in.email, blog_url |-> req_in.blog_url,
                  core_keyword |-> req_in.core_keyword,
                  analysis_md |-> req_in.analysis_md,
                  analysis_json |-> ToJsonText(req_in.analysis_json),
                  analysis_version |-> req_in.analysis_version])

\* The JSON bodies improvement_action answers with.
SuccessResponse(analysis_json, analysis_md, saved_id) ==
    [success |-> TRUE, analysis_json |-> analysis_json,
     analysis |-> Some(analysis_md), request_id |-> saved_id, error |-> None]

\* A variant that answers with a fixed text instead of the exception's.
ErrorResponseNoDetail(e) ==
    [success |-> FALSE, analysis_json |-> None, analysis |-> None,
     request_id |-> None, error |-> Some(<<"error">>)]

ErrorResponse(e) ==
    [success |-> FALSE, analysis_json |-> None, analysis |-> None,
     request_id |-> None, error |-> Some(e)]

\* A variant without the inner try: a failed save leaves through the outer
\* except clause.
SaveFailedUncaught(analysis_json, analysis_md, e) == ErrorResponse(e)

\* except Exception: saved_id = None, and the handler answers as usual.
SaveFailed(analysis_json, analysis_md, e) ==
    SuccessResponse(analysis_json, analysis_md, None)

\* A variant in which a failed fetch goes on with an empty text.
AfterScrapeFailureGoOn(e) == [pc |-> "analyze", content |-> Some(<<>>), out |-> None]

\* An exception of scrape_url_content lands in the outer except clause.
AfterScrapeFailure(e) == [pc |-> "done", content |-> None, out |-> Some(ErrorResponse(e))]

-----------------------------------------------------------------------------
(* Initial states: each specification starts one component and leaves the  *)
(* others switched off.                                                    *)

\* Longest URL tried, in pieces after the origin.
MaxUrlWords == 5

UrlInit ==
    /\ url \in {<<Origin>> \o Flatten(r) : r \in BSeq(UrlWords, MaxUrlWords)}
    /\ url_pc = "ready"
    /\ logno_out = None

UrlIdle ==
    /\ url = <<>>
    /\ url_pc = "off"
    /\ logno_out = None

ScanInit ==
    /\ scan_items \in BSeq(ScanItemKinds, MaxScanItems)
    /\ scan_target \in BSeq(LinkChars, MaxTargetLen)
    /\ scan_pc = "ready"
    /\ scan_out = None

ScanIdle ==
    /\ scan_items = <<>>
    /\ scan_target = <<>>
    /\ scan_pc = "off"
    /\ scan_out = None

RankInit ==
    /\ mk_pc = [r \in Requests |-> "idle"]
    /\ mk_in = [r \in Requests |-> NoInput]
    /\ mk_loc = [r \in Requests |-> NoLocals]
    /\ mk_svc = [r \in Requests |-> NoSvc]
    /\ mk_calls = [r \in Requests |-> <<>>]
    /\ mk_out = [r \in Requests |-> NoOut]
    /\ mk_rows = <<>>
    /\ mk_env = RankEnvSequential

\* The same handler on a server with several workers.
RankInitForms ==
    /\ mk_pc = [r \in Requests |-> "idle"]
    /\ mk_in = [r \in Requests |-> NoInput]
    /\ mk_loc = [r \in Requests |-> NoLocals]
    /\ mk_svc = [r \in Requests |-> NoSvc]
    /\ mk_calls = [r \in Requests |-> <<>>]
    /\ mk_out = [r \in Requests |-> NoOut]
    /\ mk_rows = <<>>
    /\ mk_env = RankEnvForms

RankInitConcurrent ==
    /\ mk_pc = [r \in Requests |-> "idle"]
    /\ mk_in = [r \in Requests |-> NoInput]
    /\ mk_loc = [r \in Requests |-> NoLocals]
    /\ mk_svc = [r \in Requests |-> NoSvc]
    /\ mk_calls = [r \in Requests |-> <<>>]
    /\ mk_out = [r \in Requests |-> NoOut]
    /\ mk_rows = <<>>
    /\ mk_env = RankEnvConcurrent

RankIdle ==
    /\ mk_pc = [r \in Requests |-> "off"]
    /\ mk_in = [r \in Requests |-> NoInput]
    /\ mk_loc = [r \in Requests |-> NoLocals]
    /\ mk_svc = [r \in Requests |-> NoSvc]
    /\ mk_calls = [r \in Requests |-> <<>>]
    /\ mk_out = [r \in Requests |-> NoOut]
    /\ mk_rows = <<>>
    /\ mk_env = RankEnvOff

BannedInit ==
    /\ banned_raw \in {None} \cup {Some(t) : t \in BSeq(BannedChars, MaxBannedLen)}
    /\ banned_pc = "ready"
    /\ banned_out = <<>>

BannedIdle ==
    /\ banned_raw = None
    /\ banned_pc = "off"
    /\ banned_out = <<>>

NormInit ==
    /\ norm_raw \in {None} \cup {Some(t) : t \in BSeq(TextChars, MaxTextLen)}
    /\ norm_pc = "ready"
    /\ norm_out = <<>>

NormIdle ==
    /\ norm_raw = None
    /\ norm_pc = "off"
    /\ norm_out = <<>>

GenInit ==
    /\ gen_pc = [g \in GenRequests |-> "idle"]
    /\ gen_in = [g \in GenRequests |-> <<>>]
    /\ gen_svc = [g \in GenRequests |-> GenNotCalled]
    /\ gen_calls = [g \in GenRequests |-> 0]
    /\ gen_content = [g \in GenRequests |-> None]
    /\ gen_out = [g \in GenRequests |-> NoOut]
    /\ articles = <<>>

GenIdle ==
    /\ gen_pc = [g \in GenRequests |-> "off"]
    /\ gen_in = [g \in GenRequests |-> <<>>]
    /\ gen_svc = [g \in GenRequests |-> GenNotCalled]
    /\ gen_calls = [g \in GenRequests |-> 0]
    /\ gen_content = [g \in GenRequests |-> None]
    /\ gen_out = [g \in GenRequests |-> NoOut]
    /\ articles = <<>>

ImpInit ==
    /\ imp_pc = [r \in ImpRequests |-> "idle"]
    /\ imp_in = [r \in ImpRequests |-> NoImpInput]
    /\ imp_gets = [r \in ImpRequests |-> <<>>]
    /\ imp_loc = [r \in ImpRequests |-> NoImpLocals]
    /\ imp_calls = [r \in ImpRequests |-> <<>>]
    /\ imp_resps = [r \in ImpRequests |-> <<>>]
    /\ imp_ana = [r \in ImpRequests |-> None]
    /\ imp_out = [r \in ImpRequests |-> None]
    /\ imp_rows = <<>>

ImpIdle ==
    /\ imp_pc = [r \in ImpRequests |-> "off"]
    /\ imp_in = [r \in ImpRequests |-> NoImpInput]
    /\ imp_gets = [r \in ImpRequests |-> <<>>]
    /\ imp_loc = [r \in ImpRequests |-> NoImpLocals]
    /\ imp_calls = [r \in ImpRequests |-> <<>>]
    /\ imp_resps = [r \in ImpRequests |-> <<>>]
    /\ imp_ana = [r \in ImpRequests |-> None]
    /\ imp_out = [r \in ImpRequests |-> None]
    /\ imp_rows = <<>>

ScrInit ==
    /\ sc_pc = "ready"
    /\ sc_url \in ScrUrls
    /\ sc_gets = <<>>
    /\ sc_loc = NoImpLocals
    /\ sc_res = None

ScrIdle ==
    /\ sc_pc = "off"
    /\ sc_url = <<>>
    /\ sc_gets = <<>>
    /\ sc_loc = NoImpLocals
    /\ sc_res = None

PromptInit ==
    /\ pr_pc = "ready"
    /\ pr_in \in {Some(a) : a \in PromptArgs}
    /\ pr_out = None

PromptIdle ==
    /\ pr_pc = "off"
    /\ pr_in = None
    /\ pr_out = None

-----------------------------------------------------------------------------
(* Actions.                                                                *)

CallExtractLogno ==
    /\ url_pc = "ready"
    /\ logno_out' = ExtractLogno(url)
    /\ url_pc' = "done"
    /\ UNCHANGED <<url, notUrlVars>>

CallFindRank ==
    /\ scan_pc = "ready"
    /\ scan_out' = FindRankInItems(scan_items, scan_target)
    /\ scan_pc' = "done"
    /\ UNCHANGED <<scan_items, scan_target, notScanVars>>

\* monitoring_action up to the blank-field test.  The server takes a request
\* when one of its workers is free.
MonitoringStart(r) ==
    /\ mk_pc[r] = "idle"
    /\ Cardinality({q \in Requests : mk_pc[q] \notin {"idle", "done"}}) < mk_env.workers
    /\ \E kw \in mk_env.keywords, u \in mk_env.urls :
        /\ mk_in' = [mk_in EXCEPT ![r] = [keyword |-> kw, blog_url |-> u]]
        /\ IF Strip(kw) = <<>> \/ Strip(u) = <<>>
           THEN /\ mk_out' = [mk_out EXCEPT ![r].error = Some(BlankInputError)]
                /\ mk_pc' = [mk_pc EXCEPT ![r] = "list"]
           ELSE /\ mk_out' = mk_out
                /\ mk_pc' = [mk_pc EXCEPT ![r] = "check"]
    /\ UNCHANGED <<mk_loc, mk_svc, mk_calls, mk_rows, mk_env, notRankVars>>

\* check_naver_rank: derive the post id, raise if there is none; the raise
\* lands in the handler's except clause.
CheckExtract(r) ==
    /\ mk_pc[r] = "check"
    /\ LET target == ExtractLogno(mk_in[r].blog_url)
       IN  IF LognoMissing(target)
           THEN /\ mk_out' = [mk_out EXCEPT
                                ![r].error = Some(RankCheckError("no_logno"))]
                /\ mk_pc' = [mk_pc EXCEPT ![r] = "list"]
                /\ mk_loc' = mk_loc
           ELSE /\ \E w \in mk_env.windows :
                     mk_loc' = [mk_loc EXCEPT ![r] =
                                  [window |-> w, target |-> target,
                                   blog_rank |-> None, web_rank |-> None]]
                /\ mk_pc' = [mk_pc EXCEPT ![r] = "blog"]
                /\ mk_out' = mk_out
    /\ UNCHANGED <<mk_in, mk_svc, mk_calls, mk_rows, mk_env, notRankVars>>

\* check_naver_rank: the blog search and the scan of its items.
BlogSearch(r) ==
    /\ mk_pc[r] = "blog"
    /\ \E o \in mk_env.outcomes :
        /\ mk_svc' = [mk_svc EXCEPT ![r].blog = o]
        /\ mk_loc' = [mk_loc EXCEPT
                        ![r].blog_rank = CategoryRank(o, TargetStr(mk_loc[r].target))]
        /\ mk_pc' = [mk_pc EXCEPT ![r] = PcAfterTry(o, "web")]
    /\ mk_calls' = [mk_calls EXCEPT ![r] =
                      Append(@, SearchCall("blog", mk_in[r].keyword, mk_loc[r].window))]
    /\ UNCHANGED <<mk_in, mk_out, mk_rows, mk_env, notRankVars>>

\* check_naver_rank: the web search and the scan of its items; the function
\* then returns its dict.
WebSearch(r) ==
    /\ mk_pc[r] = "web"
    /\ \E o \in mk_env.outcomes :
        /\ mk_svc' = [mk_svc EXCEPT ![r].web = o]
        /\ mk_loc' = [mk_loc EXCEPT
                        ![r].web_rank = CategoryRank(o, TargetStr(mk_loc[r].target))]
        /\ mk_pc' = [mk_pc EXCEPT ![r] = PcAfterTry(o, "store")]
    /\ mk_calls' = [mk_calls EXCEPT ![r] =
                      Append(@, SearchCall("web", mk_in[r].keyword, mk_loc[r].window))]
    /\ UNCHANGED <<mk_in, mk_out, mk_rows, mk_env, notRankVars>>

\* monitoring_action: build MonitoredKeywordCreate from the returned dict and
\* store it.  The insert commits, or the database fails and the exception
\* lands in the handler's except clause.  The function's locals end here.
StoreRecord(r) ==
    /\ mk_pc[r] = "store"
    /\ LET info == RankInfo(mk_in[r], mk_loc[r])
       IN  \/ /\ mk_rows' = CreateMonitoredKeyword(mk_rows, UserId, info)
              /\ mk_out' = [mk_out EXCEPT ![r].result = Some(info)]
           \/ /\ mk_rows' = mk_rows
              /\ mk_out' = [mk_out EXCEPT
                              ![r].error = Some(RankCheckError("db_error"))]
    /\ mk_loc' = [mk_loc EXCEPT ![r] = NoLocals]
    /\ mk_svc' = [mk_svc EXCEPT ![r] = NoSvc]
    /\ mk_pc' = [mk_pc EXCEPT ![r] = "list"]
    /\ UNCHANGED <<mk_in, mk_calls, mk_env, notRankVars>>

\* monitoring_action: read the user's latest rows and render the page.
ListAndRespond(r) ==
    /\ mk_pc[r] = "list"
    /\ mk_pc' = [mk_pc EXCEPT ![r] = "done"]
    /\ UNCHANGED <<mk_in, mk_loc, mk_svc, mk_calls, mk_out, mk_rows, mk_env, notRankVars>>

\* generate_blog_post: the banned-terms list from the form field.
ComputeBannedTerms ==
    /\ banned_pc = "ready"
    /\ banned_out' = BannedTerms(banned_raw)
    /\ banned_pc' = "done"
    /\ UNCHANGED <<banned_raw, notBannedVars>>

\* generate_blog_post: the returned text from response.text.
CallNormalizeText ==
    /\ norm_pc = "ready"
    /\ norm_out' = NormalizeText(norm_raw)
    /\ norm_pc' = "done"
    /\ UNCHANGED <<norm_raw, notNormVars>>

\* generate_post up to the required-field test.  Requests are served one at a
\* time here.
GeneratorStart(g) ==
    /\ gen_pc[g] = "idle"
    /\ \A h \in GenRequests \ {g} : gen_pc[h] \in {"idle", "done"}
    /\ \E kw \in GenKeywords :
        /\ gen_in' = [gen_in EXCEPT ![g] = kw]
        /\ IF Strip(kw) = <<>>
           THEN /\ gen_out' = [gen_out EXCEPT ![g].error = Some(KeywordRequiredError)]
                /\ gen_pc' = [gen_pc EXCEPT ![g] = "done"]
           ELSE /\ gen_out' = gen_out
                /\ gen_pc' = [gen_pc EXCEPT ![g] = "call"]
    /\ UNCHANGED <<gen_svc, gen_calls, gen_content, articles, notGenVars>>

\* generate_blog_post as the handler calls it: the service is called; its
\* text is post-processed and returned, or its failure is raised as the
\* generation error, which the handler's except clause turns into the page's
\* error.
GenerateBlogPost(g) ==
    /\ gen_pc[g] = "call"
    /\ \E o \in GenOutcomes :
        /\ gen_svc' = [gen_svc EXCEPT ![g] = o]
        /\ gen_calls' = [gen_calls EXCEPT ![g] = @ + GenerateAttempts(o)]
        /\ IF o.st = "failed"
           THEN /\ gen_out' = [gen_out EXCEPT ![g].error =
                                 Some(GeneratorPageError(GenerationError(o.cause)))]
                /\ gen_content' = gen_content
                /\ gen_pc' = [gen_pc EXCEPT ![g] = "done"]
           ELSE /\ gen_content' = [gen_content EXCEPT ![g] = Some(NormalizeText(o.text))]
                /\ gen_out' = gen_out
                /\ gen_pc' = [gen_pc EXCEPT ![g] = "store"]
    /\ UNCHANGED <<gen_in, articles, notGenVars>>

\* generate_post: store the article and render it.  The insert commits, or
\* the database fails and the exception leaves the handler.
StoreArticle(g) ==
    /\ gen_pc[g] = "store"
    /\ \/ /\ articles' = CreateArticle(articles, UserId, gen_in[g], gen_content[g][1])
          /\ gen_out' = [gen_out EXCEPT ![g].result =
                           Some([article_id |-> Len(articles) + 1,
                                 content |-> gen_content[g][1],
                                 core_keyword |-> gen_in[g]])]
       \/ /\ articles' = articles
          /\ gen_out' = [gen_out EXCEPT ![g].error = Some(UnhandledError)]
    /\ gen_pc' = [gen_pc EXCEPT ![g] = "done"]
    /\ UNCHANGED <<gen_in, gen_svc, gen_calls, gen_content, notGenVars>>

\* improvement_action: a request arrives with its form fields.
ImprovementStart(r) ==
    /\ imp_pc[r] = "idle"
    /\ \A q \in ImpRequests \ {r} : imp_pc[q] \in {"idle", "done", "aborted"}
    /\ \E u \in ImpUrls, kw \in ImpKeywords, em \in ImpEmails, usr \in ImpUsers :
        imp_in' = [imp_in EXCEPT ![r] =
                     [blog_url |-> u, core_keyword |-> kw, email |-> em,
                      user |-> usr]]
    /\ imp_pc' = [imp_pc EXCEPT ![r] = "get1"]
    /\ UNCHANGED <<imp_gets, imp_loc, imp_calls, imp_resps, imp_ana, imp_out,
                   imp_rows, notImpVars>>

\* The request is over: its locals end, the body out (None when the request
\* was abandoned) is what the caller gets.
EndRequest(r, pc, out) ==
    /\ imp_pc' = [imp_pc EXCEPT ![r] = pc]
    /\ imp_out' = [imp_out EXCEPT ![r] = out]
    /\ imp_gets' = [imp_gets EXCEPT ![r] = <<>>]
    /\ imp_loc' = [imp_loc EXCEPT ![r] = NoImpLocals]
    /\ imp_calls' = [imp_calls EXCEPT ![r] = <<>>]
    /\ imp_resps' = [imp_resps EXCEPT ![r] = <<>>]
    /\ imp_ana' = [imp_ana EXCEPT ![r] = None]

\* scrape_url_content raised e.
ScrapeRaised(r, e) ==
    LET a == AfterScrapeFailure(e)
    IN  IF a.pc = "done"
        THEN EndRequest(r, "done", a.out)
        ELSE /\ imp_pc' = [imp_pc EXCEPT ![r] = a.pc]
             /\ imp_loc' = [imp_loc EXCEPT ![r].content = a.content]
             /\ imp_gets' = imp_gets
             /\ UNCHANGED <<imp_out, imp_calls, imp_resps, imp_ana>>

\* A variant that never looks for the iframe.
FirstPageNoFrame(o) ==
    IF o.st = "failed" THEN Raise(FetchError(o.cause))
    ELSE Return([NoImpLocals EXCEPT !.soup2 = Some(o.doc)])

\* scrape_url_content up to the iframe test: what the first GET leads to.
FirstPage(o) ==
    IF o.st = "failed" THEN Raise(FetchError(o.cause))
    ELSE IF o.doc.iframe = None
    THEN Return([NoImpLocals EXCEPT !.soup2 = Some(o.doc)])
    ELSE IF IframeSrcMissing(o.doc.iframe[1]) THEN Raise(IframeSrcError)
    ELSE Return([NoImpLocals EXCEPT
                   !.iframe_url = Some(IframeUrl(o.doc.iframe[1][1]))])

\* A variant that takes a failed second GET for a document without a body.
SecondPageFailureAsNoBody(o) ==
    IF o.st = "failed" THEN Raise(NoBodyError)
    ELSE Return([NoImpLocals EXCEPT !.soup2 = Some(o.doc)])

\* scrape_url_content after the second GET: its document is soup2, whatever
\* frames it holds.
SecondPage(o) ==
    IF o.st = "failed" THEN Raise(FetchError(o.cause))
    ELSE Return([NoImpLocals EXCEPT !.soup2 = Some(o.doc)])

\* scrape_url_content: the first GET, the parse and the iframe test.
FetchPage(r) ==
    /\ imp_pc[r] = "get1"
    /\ \E o \in GetOutcomes :
        LET res == FirstPage(o)
        IN  IF res.st = "raise"
            THEN ScrapeRaised(r, res.error)
            ELSE /\ imp_loc' = [imp_loc EXCEPT ![r] = res.value]
                 /\ imp_pc' = [imp_pc EXCEPT ![r] =
                                 IF res.value.soup2 = None THEN "get2" ELSE "extract"]
                 /\ imp_gets' = [imp_gets EXCEPT ![r] = Append(@, imp_in[r].blog_url)]
                 /\ UNCHANGED <<imp_out, imp_calls, imp_resps, imp_ana>>
    /\ UNCHANGED <<imp_in, imp_rows, notImpVars>>

\* scrape_url_content: the GET of the iframe's document.
FetchFrame(r) ==
    /\ imp_pc[r] = "get2"
    /\ \E o \in GetOutcomes :
        IF o.st = "failed"
        THEN ScrapeRaised(r, FetchError(o.cause))
        ELSE /\ imp_loc' = [imp_loc EXCEPT ![r].soup2 = Some(o.doc)]
             /\ imp_pc' = [imp_pc EXCEPT ![r] = "extract"]
             /\ imp_gets' = [imp_gets EXCEPT ![r] = Append(@, imp_loc[r].iframe_url[1])]
             /\ UNCHANGED <<imp_out, imp_calls, imp_resps, imp_ana>>
    /\ UNCHANGED <<imp_in, imp_rows, notImpVars>>

\* scrape_url_content: the selector loop, the body fallback, the cut.
ExtractText(r) ==
    /\ imp_pc[r] = "extract"
    /\ LET res == ExtractContent(imp_loc[r].soup2[1])
       IN  IF res.st = "raise"
           THEN ScrapeRaised(r, res.error)
           ELSE /\ imp_loc' = [imp_loc EXCEPT ![r].content = Some(res.value)]
                /\ imp_pc' = [imp_pc EXCEPT ![r] = "analyze"]
                /\ UNCHANGED <<imp_gets, imp_out, imp_calls, imp_resps, imp_ana>>
    /\ UNCHANGED <<imp_in, imp_rows, notImpVars>>

\* analyze_blog_post_json: one generation request and what follows from its
\* response; a failure of the service lands in the handler's outer except.
AnalyzeAttempt(r) ==
    /\ imp_pc[r] = "analyze"
    /\ \E o \in AnaOutcomes :
        LET call == AnalysisRequest(imp_loc[r].content[1], imp_in[r].core_keyword,
                                    imp_in[r].blog_url)
            resps == IF o.st = "ok" THEN Append(imp_resps[r], o.text) ELSE imp_resps[r]
            res == IF o.st = "failed" THEN Raise(AnalysisError(o.cause))
                   ELSE AfterResponse(resps, max_retries)
        IN  IF res.st = "raise"
            THEN EndRequest(r, "done", Some(ErrorResponse(res.error)))
            ELSE /\ imp_calls' = [imp_calls EXCEPT ![r] = Append(@, call)]
                 /\ imp_resps' = [imp_resps EXCEPT ![r] = resps]
                 /\ imp_ana' = [imp_ana EXCEPT ![r] =
                                  IF res.st = "return" THEN Some(res.value) ELSE None]
                 /\ imp_pc' = [imp_pc EXCEPT ![r] =
                                 IF res.st = "return" THEN "store" ELSE "analyze"]
                 /\ UNCHANGED <<imp_gets, imp_loc, imp_out>>
    /\ UNCHANGED <<imp_in, imp_rows, notImpVars>>

\* improvement_action from analysis_md on: build the payload and req_in.  A
\* ValidationError the fallback does not cure leaves the inner try: saved_id
\* stays None and the handler answers.
BuildReqIn(r) ==
    /\ imp_pc[r] = "store"
    /\ LET pair == imp_ana[r][1]
           analysis_md == AnalysisMd(pair.raw_text)
           req_in == ReqIn(Payload(imp_in[r], pair.analysis_json, analysis_md))
       IN  IF req_in.st = "raise"
           THEN EndRequest(r, "done",
                           Some(SaveFailed(pair.analysis_json, analysis_md,
                                           req_in.error)))
           ELSE /\ imp_loc' = [imp_loc EXCEPT ![r].req_in = Some(req_in.value)]
                /\ imp_pc' = [imp_pc EXCEPT ![r] = "save"]
                /\ UNCHANGED <<imp_gets, imp_calls, imp_resps, imp_ana, imp_out>>
    /\ UNCHANGED <<imp_in, imp_rows, notImpVars>>

\* improvement_action: await crud.create_improvement_request, then answer.
\* The insert commits, or the database fails and saved_id stays None.
SaveAndRespond(r) ==
    /\ imp_pc[r] = "save"
    /\ LET pair == imp_ana[r][1]
           analysis_md == AnalysisMd(pair.raw_text)
       IN  \/ /\ imp_rows' = CreateImprovementRequest(imp_rows, imp_in[r].user,
                                                      imp_loc[r].req_in[1])
              /\ EndRequest(r, "done",
                            Some(SuccessResponse(pair.analysis_json, analysis_md,
                                                 Some(Len(imp_rows) + 1))))
           \/ /\ imp_rows' = imp_rows
              /\ EndRequest(r, "done",
                            Some(SaveFailed(pair.analysis_json, analysis_md, DbError)))
    /\ UNCHANGED <<imp_in, notImpVars>>

\* The inbound request is aborted: the handler takes no further step and
\* answers nothing.  An insert under way at that moment commits or does not.
Abandon(r) ==
    /\ imp_pc[r] \in {"get1", "get2", "extract", "analyze", "store", "save"}
    /\ \/ imp_rows' = imp_rows
       \/ /\ imp_pc[r] = "save"
          /\ imp_rows' = CreateImprovementRequest(imp_rows, imp_in[r].user,
                                                  imp_loc[r].req_in[1])
    /\ EndRequest(r, "aborted", None)
    /\ UNCHANGED <<imp_in, notImpVars>>

\* scrape_url_content ends: res is the text returned or the exception raised.
ScrapeEnds(res) ==
    /\ sc_res' = Some(res)
    /\ sc_pc' = "done"
    /\ sc_loc' = NoImpLocals

\* scrape_url_content: the first GET, the parse and the iframe test.
ScrapeGet1 ==
    /\ sc_pc = "ready"
    /\ \E o \in ScrOutcomes(sc_url) :
        LET res == FirstPage(o)
        IN  /\ sc_gets' = Append(sc_gets, [url |-> sc_url, outcome |-> o])
            /\ IF res.st = "raise"
               THEN ScrapeEnds(res)
               ELSE /\ sc_loc' = res.value
                    /\ sc_pc' = IF res.value.soup2 = None THEN "get2" ELSE "extract"
                    /\ sc_res' = sc_res
    /\ UNCHANGED <<sc_url, notScrVars>>

\* scrape_url_content: the GET of the iframe's document.
ScrapeGet2 ==
    /\ sc_pc = "get2"
    /\ \E o \in ScrOutcomes(sc_loc.iframe_url[1]) :
        LET res == SecondPage(o)
        IN  /\ sc_gets' = Append(sc_gets, [url |-> sc_loc.iframe_url[1], outcome |-> o])
            /\ IF res.st = "raise"
               THEN ScrapeEnds(res)
               ELSE /\ sc_loc' = res.value
                    /\ sc_pc' = "extract"
                    /\ sc_res' = sc_res
    /\ UNCHANGED <<sc_url, notScrVars>>

\* scrape_url_content: the selector loop, the body fallback, the cut.
ScrapeExtract ==
    /\ sc_pc = "extract"
    /\ ScrapeEnds(ExtractContent(sc_loc.soup2[1]))
    /\ UNCHANGED <<sc_url, sc_gets, notScrVars>>

\* generate_blog_post from its first line to full_prompt.
BuildPrompt ==
    /\ pr_pc = "ready"
    /\ pr_out' = Some(PromptValues(pr_in[1]))
    /\ pr_pc' = "done"
    /\ UNCHANGED <<pr_in, notPromptVars>>

-----------------------------------------------------------------------------
(* Specifications.                                                         *)

InitUrl ==
    /\ UrlInit /\ ScanIdle /\ RankIdle /\ BannedIdle /\ NormIdle /\ GenIdle /\ ImpIdle
    /\ ScrIdle /\ PromptIdle

NextUrl == CallExtractLogno

SpecUrl == InitUrl /\ [][NextUrl]_vars

InitScan ==
    /\ ScanInit /\ UrlIdle /\ RankIdle /\ BannedIdle /\ NormIdle /\ GenIdle /\ ImpIdle
    /\ ScrIdle /\ PromptIdle

NextScan == CallFindRank

SpecScan == InitScan /\ [][NextScan]_vars

InitRank ==
    /\ RankInit /\ UrlIdle /\ ScanIdle /\ BannedIdle /\ NormIdle /\ GenIdle /\ ImpIdle
    /\ ScrIdle /\ PromptIdle

NextRank ==
    \E r \in Requests :
        \/ MonitoringStart(r)
        \/ CheckExtract(r)
        \/ BlogSearch(r)
        \/ WebSearch(r)
        \/ StoreRecord(r)
        \/ ListAndRespond(r)

SpecRank == InitRank /\ [][NextRank]_vars

InitRankConcurrent ==
    /\ RankInitConcurrent
    /\ UrlIdle /\ ScanIdle /\ BannedIdle /\ NormIdle /\ GenIdle /\ ImpIdle
    /\ ScrIdle /\ PromptIdle

SpecRankConcurrent == InitRankConcurrent /\ [][NextRank]_vars

InitBanned ==
    /\ BannedInit /\ UrlIdle /\ ScanIdle /\ RankIdle /\ NormIdle /\ GenIdle /\ ImpIdle
    /\ ScrIdle /\ PromptIdle

NextBanned == ComputeBannedTerms

SpecBanned == InitBanned /\ [][NextBanned]_vars

InitNorm ==
    /\ NormInit /\ UrlIdle /\ ScanIdle /\ RankIdle /\ BannedIdle /\ GenIdle /\ ImpIdle
    /\ ScrIdle /\ PromptIdle

NextNorm == CallNormalizeText

SpecNorm == InitNorm /\ [][NextNorm]_vars

InitGen ==
    /\ GenInit /\ UrlIdle /\ ScanIdle /\ RankIdle /\ BannedIdle /\ NormIdle /\ ImpIdle
    /\ ScrIdle /\ PromptIdle

NextGen ==
    \E g \in GenRequests :
        \/ GeneratorStart(g)
        \/ GenerateBlogPost(g)
        \/ StoreArticle(g)

SpecGen == InitGen /\ [][NextGen]_vars

InitImp ==
    /\ ImpInit /\ UrlIdle /\ ScanIdle /\ RankIdle /\ BannedIdle /\ NormIdle /\ GenIdle
    /\ ScrIdle /\ PromptIdle

NextImp ==
    \E r \in ImpRequests :
        \/ ImprovementStart(r)
        \/ FetchPage(r)
        \/ FetchFrame(r)
        \/ ExtractText(r)
        \/ AnalyzeAttempt(r)
        \/ BuildReqIn(r)
        \/ SaveAndRespond(r)
        \/ Abandon(r)

SpecImp == InitImp /\ [][NextImp]_vars

InitScr ==
    /\ ScrInit /\ UrlIdle /\ ScanIdle /\ RankIdle /\ BannedIdle /\ NormIdle /\ GenIdle
    /\ ImpIdle /\ PromptIdle

NextScr == ScrapeGet1 \/ ScrapeGet2 \/ ScrapeExtract

SpecScr == InitScr /\ [][NextScr]_vars

InitPrompt ==
    /\ PromptInit /\ UrlIdle /\ ScanIdle /\ RankIdle /\ BannedIdle /\ NormIdle /\ GenIdle
    /\ ImpIdle /\ ScrIdle

NextPrompt == BuildPrompt

SpecPrompt == InitPrompt /\ [][NextPrompt]_vars

\* The request boundary: the server takes POST /improvement requests, or
\* POST /monitoring requests side by side.
InitBoundary == InitImp \/ InitRankConcurrent

NextBoundary == NextImp \/ NextRank

SpecBoundary == InitBoundary /\ [][NextBoundary]_vars

\* The forms: the server takes POST /monitoring requests, or POST /generator
\* requests, with whatever the form fields hold.
InitForms ==
    \/ /\ RankInitForms
       /\ UrlIdle /\ ScanIdle /\ BannedIdle /\ NormIdle /\ GenIdle /\ ImpIdle
       /\ ScrIdle /\ PromptIdle
    \/ InitGen

NextForms == NextRank \/ NextGen

SpecForms == InitForms /\ [][NextForms]_vars

-----------------------------------------------------------------------------
(* Claims about identifier extraction.                                     *)

\* A query field that spells  logNo=<non-empty value>.
IsLogNoField(f) == Len(f) >= 3 /\ f[1] = "logNo" /\ f[2] = "="

LogNoFields(u) == SelectSeq(Split(UrlParse(u).query, "&"), IsLogNoField)

FieldValue(f) == SubSeq(f, 3, Len(f))

LastPart(u) ==
    LET parts == PathParts(UrlParse(u).path)
    IN  IF Len(parts) = 0 THEN None ELSE Some(parts[Len(parts)])

IsDecimal(s) == Len(s) > 0 /\ \A i \in 1..Len(s) : s[i] \in DecimalChars

\* C1: whenever the query string has a logNo parameter with a non-empty
\* value, the result is the first such value, whatever the path is.
C1_QueryParamWins ==
    (url_pc = "done" /\ Len(LogNoFields(url)) > 0)
        => logno_out = Some(FieldValue(LogNoFields(url)[1]))

\* C1 witness: the path ends in an all-digit segment different from the
\* logNo value, and the value is what was returned.
C1_Witness ==
    /\ url_pc = "done"
    /\ Len(LogNoFields(url)) > 0
    /\ IsDecimal(FieldValue(LogNoFields(url)[1]))
    /\ LastPart(url) # None
    /\ IsDecimal(LastPart(url)[1])
    /\ LastPart(url)[1] # FieldValue(LogNoFields(url)[1])
    /\ logno_out = Some(FieldValue(LogNoFields(url)[1]))

\* C2: with no (non-empty) logNo parameter, the result is the last non-empty
\* path segment when it consists only of decimal digits, and None otherwise.
C2_PathFallbackDecimal ==
    (url_pc = "done" /\ Len(LogNoFields(url)) = 0)
        => logno_out = (IF LastPart(url) # None /\ IsDecimal(LastPart(url)[1])
                        THEN LastPart(url)
                        ELSE None)

-----------------------------------------------------------------------------
(* Claims about the rank scan.                                             *)

\* The 1-based positions whose item has a link containing the target.
MatchingPositions(items, target) ==
    {i \in 1..Len(items) :
        "link" \in DOMAIN items[i] /\ Contains(items[i].link, target)}

SetMin(S) == CHOOSE m \in S : \A x \in S : m <= x

\* C3: for a non-empty target id the scan returns the 1-based position of
\* the first item whose link contains the id, and None when there is none.
C3_FirstMatchOneBased ==
    (scan_pc = "done" /\ Len(scan_target) > 0)
        => LET M == MatchingPositions(scan_items, scan_target)
           IN  scan_out = (IF M = {} THEN None ELSE Some(SetMin(M)))

\* C3 witness: the first match is not the first item, an item without a
\* link precedes it, a later item matches too, and its position is returned.
C3_Witness ==
    /\ scan_pc = "done"
    /\ Len(scan_target) > 0
    /\ LET M == MatchingPositions(scan_items, scan_target)
       IN  /\ Cardinality(M) >= 2
           /\ SetMin(M) = 2
           /\ scan_items[1] = NoLinkItem
           /\ Len(scan_items[2].link) > Len(scan_target)
           /\ scan_out = Some(2)

-----------------------------------------------------------------------------
(* Claims about rank lookup and POST /monitoring.                          *)

\* What a scan of items for target is to give: the first matching position.
ExpectedRank(items, target) ==
    LET M == MatchingPositions(items, target)
    IN  IF M = {} THEN None ELSE Some(SetMin(M))

InWindow(rank, window) == rank = None \/ (1 <= rank[1] /\ rank[1] <= window)

\* check_naver_rank has returned and the handler has not stored yet.
Returned(r) == mk_pc[r] = "store"

\* C4: in every returned result web_rank and blog_rank are None or lie in
\* 1..W, W the window the call was made with, whatever list the service sent.
C4_RanksWithinWindow ==
    \A r \in Requests :
        Returned(r) =>
            /\ InWindow(mk_loc[r].web_rank, mk_loc[r].window)
            /\ InWindow(mk_loc[r].blog_rank, mk_loc[r].window)

\* C5: a failed category call never makes check_naver_rank raise: control
\* goes on to the next category and to the return, the failed category's
\* rank is None, and the other category's rank is the scan of its items.
C5_PerCategoryFaultTolerance ==
    \A r \in Requests :
        /\ mk_svc[r].blog.st = "failed" =>
              (mk_pc[r] \in {"web", "store"} /\ mk_loc[r].blog_rank = None)
        /\ mk_svc[r].web.st = "failed" =>
              (mk_pc[r] = "store" /\ mk_loc[r].web_rank = None)
        /\ (Returned(r) /\ mk_svc[r].blog.st = "ok") =>
              mk_loc[r].blog_rank =
                  ExpectedRank(mk_svc[r].blog.items, mk_loc[r].target[1])
        /\ (Returned(r) /\ mk_svc[r].web.st = "ok") =>
              mk_loc[r].web_rank =
                  ExpectedRank(mk_svc[r].web.items, mk_loc[r].target[1])
        /\ (mk_svc[r].blog.st = "failed" \/ mk_svc[r].web.st = "failed") =>
              mk_out[r].error = None

\* C5 witness: the web call failed, the blog call found the post at rank 2,
\* and the call returned with web_rank None.
C5_Witness ==
    \E r \in Requests :
        /\ Returned(r)
        /\ mk_svc[r].web.st = "failed"
        /\ mk_svc[r].blog.st = "ok"
        /\ mk_loc[r].blog_rank = Some(2)
        /\ mk_loc[r].web_rank = None

\* C5 witness of the symmetric cases is the same state with the categories
\* exchanged; both failing gives both ranks None.

Unextractable(r) ==
    /\ mk_pc[r] \notin {"idle", "check"}
    /\ Strip(mk_in[r].keyword) # <<>>
    /\ Strip(mk_in[r].blog_url) # <<>>
    /\ ExtractLogno(mk_in[r].blog_url) = None

\* C6: when no post id can be derived from the URL, the request makes no
\* search call, gets no result, reports the rank-lookup error, and no row
\* carrying such a URL is ever stored.
C6_FailFast ==
    /\ \A r \in Requests :
          Unextractable(r) =>
              /\ mk_calls[r] = <<>>
              /\ mk_pc[r] \in {"list", "done"}
              /\ mk_out[r].result = None
              /\ mk_out[r].error = Some(RankCheckError("no_logno"))
    /\ \A i \in 1..Len(mk_rows) :
          ExtractLogno(mk_rows[i].blog_url) # None

\* C6 witness: a finished request whose URL had no post id, after another
\* request stored its row.
C6_Witness ==
    \E r \in Requests :
        /\ Unextractable(r)
        /\ mk_pc[r] = "done"
        /\ mk_out[r].error = Some(RankCheckError("no_logno"))
        /\ Len(mk_rows) = 1

\* The request r succeeds in this step: its result appears.
Succeeds(r) == mk_out[r].result = None /\ mk_out'[r].result # None

\* C7: every step keeps the stored rows as they are; a step in which a check
\* succeeds appends exactly one row with that check's keyword, URL, post id
\* and ranks, and no other step changes the table.
C7_AppendOnly ==
    [][ /\ Len(mk_rows') >= Len(mk_rows)
        /\ SubSeq(mk_rows', 1, Len(mk_rows)) = mk_rows
        /\ \A r \in Requests :
              Succeeds(r) =>
                  /\ Len(mk_rows') = Len(mk_rows) + 1
                  /\ LET new == mk_rows'[Len(mk_rows')]
                     IN  /\ new.keyword = mk_in[r].keyword
                         /\ new.blog_url = mk_in[r].blog_url
                         /\ new.log_no = mk_loc[r].target
                         /\ new.web_rank = mk_loc[r].web_rank
                         /\ new.blog_rank = mk_loc[r].blog_rank
                         /\ new.user_id = UserId
        /\ (\A r \in Requests : ~Succeeds(r)) => mk_rows' = mk_rows
      ]_vars

\* C7 witness: the same keyword and URL were checked twice with different
\* outcomes, and both rows are there.
C7_Witness ==
    /\ Len(mk_rows) = 2
    /\ mk_rows[1].keyword = mk_rows[2].keyword
    /\ mk_rows[1].blog_url = mk_rows[2].blog_url
    /\ mk_rows[1].user_id = mk_rows[2].user_id
    /\ mk_rows[1].blog_rank # mk_rows[2].blog_rank
    /\ \A r \in Requests : mk_out[r].result # None

-----------------------------------------------------------------------------
(* Claims about the banned-terms list.                                     *)

\* The user's terms: the comma-separated pieces, trimmed, the empty dropped.
UserTerms(raw) ==
    IF raw = None THEN {}
    ELSE {Strip(piece) : piece \in ToSet(Split(raw[1], ","))} \ {<<>>}

\* C8: the banned-term list holds exactly the built-in terms and the trimmed
\* non-empty user terms, compared as exact strings, each once, in ascending
\* order.
C8_BannedTermsSortedUnion ==
    banned_pc = "done" =>
        /\ ToSet(banned_out) = ToSet(DefaultBanned) \cup UserTerms(banned_raw)
        /\ \A i, j \in 1..Len(banned_out) :
              i < j => StrLess(banned_out[i], banned_out[j])

\* C8 witness: the user repeats a built-in term and adds a new one after a
\* blank; the list has the built-in terms and the new one, once each.
C8_Witness ==
    /\ banned_pc = "done"
    /\ banned_raw # None
    /\ <<"hyo", "gwa">> \in UserTerms(banned_raw)
    /\ <<"a">> \in UserTerms(banned_raw)
    /\ Contains(banned_raw[1], <<" ">>)
    /\ Len(banned_out) = Len(DefaultBanned) + 1

-----------------------------------------------------------------------------
(* Claims about the generated text and POST /generator.                    *)

RawText == IF norm_raw = None THEN <<>> ELSE norm_raw[1]

\* The lines of a text that hold a non-whitespace character, in order.
NonBlankLines(t) ==
    LET nonBlank(l) == Strip(l) # <<>>
    IN  SelectSeq(Split(t, "\n"), nonBlank)

\* The newline-separated units of an output text.
Units(out) == IF out = <<>> THEN <<>> ELSE Split(out, "\n")

\* One <p>...</p> unit per non-blank line of the service's text, in order.
OneUnitPerLine ==
    LET lines == NonBlankLines(RawText)
        units == Units(norm_out)
    IN  /\ Len(units) = Len(lines)
        /\ \A i \in 1..Len(lines) : units[i] = WrapP(Strip(lines[i]))

\* C9 as stated: without a paragraph marker the output is one wrapped unit
\* per non-blank line, in order; with one, the output is the service's text
\* unmodified.
C9_PassThroughUnmodified ==
    norm_pc = "done" =>
        IF Contains(RawText, ParagraphMarker)
        THEN norm_out = RawText
        ELSE OneUnitPerLine

\* C9 as amended: without a paragraph marker the output is one wrapped unit
\* per non-blank line, in order; with one, the output is the service's text
\* with its leading and trailing whitespace removed.
C9_WrapOrStrip ==
    norm_pc = "done" =>
        IF Contains(RawText, ParagraphMarker)
        THEN norm_out = Strip(RawText)
        ELSE OneUnitPerLine

\* C9 witness: three non-blank lines and no marker give three units.
C9_Witness ==
    /\ norm_pc = "done"
    /\ ~Contains(RawText, ParagraphMarker)
    /\ Len(NonBlankLines(RawText)) = 3
    /\ Len(Units(norm_out)) = 3
    /\ norm_out = WrapP(<<"x">>) \o <<"\n">> \o WrapP(<<"x">>) \o <<"\n">> \o WrapP(<<"x">>)

\* C10: a request calls the generation service at most once, exactly once
\* when it got that far; after a failed call the request is over, its page
\* carries the generation error with the cause, it has no result, and the
\* stored articles are exactly those of the requests that have a result.
C10_GenerationFailure ==
    /\ \A g \in GenRequests :
          /\ gen_calls[g] = (IF gen_svc[g].st = "none" THEN 0 ELSE 1)
          /\ gen_svc[g].st = "failed" =>
                /\ gen_pc[g] = "done"
                /\ gen_out[g].error =
                       Some(GeneratorPageError(GenerationError(gen_svc[g].cause)))
                /\ gen_out[g].result = None
                /\ gen_content[g] = None
    /\ Len(articles) = Cardinality({g \in GenRequests : gen_out[g].result # None})

\* C10 witness: one request stored its article, the other failed on a quota
\* error and reports it.
C10_Witness ==
    \E g \in GenRequests :
        /\ gen_svc[g].st = "failed"
        /\ gen_svc[g].cause = "quota"
        /\ gen_calls[g] = 1
        /\ gen_pc[g] = "done"
        /\ gen_out[g].error = Some(GeneratorPageError(GenerationError("quota")))
        /\ Len(articles) = 1

-----------------------------------------------------------------------------
(* Claims about the structured analysis and POST /improvement.             *)

\* The response text passes the normalizer's schema validation.
SchemaOk(text) ==
    ParseJson(text) # None /\ AnalysisShapeValid(ParseJson(text)[1])

\* analyze_blog_post_json has returned to the handler.
AnalysisReturned(r) == imp_pc[r] \in {"store", "save"}

\* The errors a request may report: those of the fetch and the extraction,
\* and a failure of the generation service.
ReportedErrors ==
    {FetchError(c) : c \in GetCauses}
        \cup {IframeSrcError, NoBodyError, EmptyTextError}
        \cup {AnalysisError(c) : c \in GenCauses}

CleanObject(obj) ==
    \A i \in 1..Len(obj) : Has(AnalysisFields, obj[i]) \/ obj[i] = "extra"

\* C12: no request follows a response that validated, and a response that
\* validates - one whose object has unknown extra members included - makes
\* the call return (that object, that response's text).
C12_AnalysisSuccess ==
    \A r \in ImpRequests :
        LET resps == imp_resps[r]
            last == resps[Len(resps)]
        IN  /\ \A i \in 1..Len(resps) : i < Len(resps) => ~SchemaOk(resps[i])
            /\ Len(imp_calls[r]) = Len(resps)
            /\ (Len(resps) > 0 /\ SchemaOk(last))
                  => /\ AnalysisReturned(r)
                     /\ imp_ana[r] = Some(AnalysisPair(ParseJson(last), Some(last)))
            /\ (Len(resps) > 0 /\ ParseJson(last) # None
                               /\ CleanObject(ParseJson(last)[1]))
                  => /\ AnalysisReturned(r)
                     /\ imp_ana[r][1].analysis_json = ParseJson(last)

\* C12 witness: the first response is Markdown, the second an object with an
\* unknown member; the call returned that object and the second text.
C12_Witness ==
    \E r \in ImpRequests :
        /\ AnalysisReturned(r)
        /\ imp_resps[r] = <<<<"m", "d", "\n">>, <<"{", "summary", "extra", "}", "\n">>>>
        /\ imp_ana[r] = Some(AnalysisPair(Some(<<"summary", "extra">>),
                                          Some(<<"{", "summary", "extra", "}", "\n">>)))

\* The structured analysis the call returned is absent, or is one the
\* record schema rejects.
Degraded(r) ==
    /\ imp_ana[r] # None
    /\ \/ imp_ana[r][1].analysis_json = None
       \/ ~ImprovementAnalysisValid(imp_ana[r][1].analysis_json[1])

\* The remaining fields of the request pass the record schema.
OtherFieldsValid(r) == imp_in[r].email = None \/ IsEmail(imp_in[r].email[1])

\* The record of request r with the given analysis and version.
ExpectedRow(r, analysis_json, analysis_version) ==
    [id |-> Len(imp_rows) + 1, user_id |-> imp_in[r].user,
     email |-> imp_in[r].email, blog_url |-> imp_in[r].blog_url,
     core_keyword |-> imp_in[r].core_keyword,
     analysis_md |-> AnalysisMd(imp_ana[r][1].raw_text),
     analysis_json |-> analysis_json, analysis_version |-> analysis_version]

\* The handler answers request r in this step.
Answers(r) == AnalysisReturned(r) /\ imp_pc'[r] = "done"

\* The answer reports success with the (trimmed) raw text.
SuccessWithRawText(r) ==
    /\ imp_out'[r] # None
    /\ imp_out'[r][1].success
    /\ imp_out'[r][1].analysis = Some(AnalysisMd(imp_ana[r][1].raw_text))

C14_BestEffortPersistence ==
    [][\A r \in ImpRequests :
          (Answers(r) /\ imp_rows' = imp_rows)
             => imp_out'[r] =
                   Some(SuccessResponse(imp_ana[r][1].analysis_json,
                                        AnalysisMd(imp_ana[r][1].raw_text),
                                        None))]_vars

\* C14 witness: a request answered with success, a structured result and no
\* record id, while the table is empty.
C14_Witness ==
    \E r \in ImpRequests :
        /\ imp_pc[r] = "done"
        /\ imp_out[r] # None
        /\ imp_out[r][1].success
        /\ imp_out[r][1].analysis_json = Some(<<"summary", "extra">>)
        /\ imp_out[r][1].analysis = Some(<<"{", "summary", "extra", "}">>)
        /\ imp_out[r][1].request_id = None
        /\ imp_rows = <<>>

\* Every GET the fetch needs was made and answered, and the content is what
\* the extraction gives for the content document.
FetchComplete(r) ==
    /\ imp_loc[r].soup2 # None
    /\ imp_loc[r].content # None
    /\ ExtractContent(imp_loc[r].soup2[1]) = Return(imp_loc[r].content[1])
    /\ Len(imp_gets[r]) = (IF imp_loc[r].iframe_url = None THEN 1 ELSE 2)

\* C16: a step adds at most one record, and only for a request whose fetch
\* completed and whose analysis returned, from that request's own fields; a
\* request that fails or is abandoned during fetch, extraction or analysis
\* leaves the table as it is.
C16_NoPartialAudit ==
    [][/\ imp_rows' # imp_rows
          => \E r \in ImpRequests :
                /\ imp_pc[r] = "save"
                /\ FetchComplete(r)
                /\ imp_ana[r] # None
                /\ \E j \in {None, imp_ana[r][1].analysis_json} :
                      imp_rows' =
                         Append(imp_rows,
                                ExpectedRow(r, ToJsonText(j),
                                            IF j # None THEN Some("v1") ELSE None))
       /\ \A r \in ImpRequests :
             (/\ imp_pc[r] \in {"get1", "get2", "extract", "analyze"}
              /\ imp_pc'[r] \in {"done", "aborted"})
                => imp_rows' = imp_rows]_vars

\* C16 witness: one request was abandoned, the other failed, one gave up
\* nothing: the table holds the single record of a request that went through.
C16_Witness ==
    \E r, q \in ImpRequests :
        /\ imp_pc[r] = "aborted"
        /\ imp_pc[q] = "done"
        /\ imp_out[q] # None
        /\ imp_out[q][1].request_id = Some(1)
        /\ Len(imp_rows) = 1

-----------------------------------------------------------------------------
(* Further claims about POST /generator.                                   *)

\* C15: when generate_blog_post has returned and storing the Article then
\* fails, the caller still receives the generated content: every finished
\* request whose generation succeeded answers with that content.
C15_ContentSurvivesStoreFailure ==
    \A g \in GenRequests :
        (gen_pc[g] = "done" /\ gen_content[g] # None)
            => /\ gen_out[g].result # None
               /\ gen_out[g].result[1].content = gen_content[g][1]

-----------------------------------------------------------------------------
(* Further claims about rank lookup: concurrency, protocol, conflation.    *)

\* The rank request r is to get for a category from what that category's
\* call gave it.
OwnRank(o, target) ==
    IF o.st = "ok" THEN ExpectedRank(o.items, target[1]) ELSE None

\* The result of request r as its own inputs and responses determine it.
OwnInfo(r) ==
    LET target == ExtractLogno(mk_in[r].blog_url)
    IN  [keyword |-> mk_in[r].keyword, blog_url |-> mk_in[r].blog_url,
         log_no |-> target,
         web_rank |-> OwnRank(mk_svc[r].web, target),
         blog_rank |-> OwnRank(mk_svc[r].blog, target)]

\* The values request r owns.
Owned(r) == <<mk_pc[r], mk_in[r], mk_loc[r], mk_svc[r], mk_calls[r], mk_out[r]>>

\* C17: with the requests interleaved in any way, a check that succeeds
\* gets the result its own inputs and its own responses determine and adds
\* one record of its own with that result to the table, and no step changes
\* the values of two requests.
C17_RequestIndependence ==
    [][/\ \A r \in Requests :
             Succeeds(r) =>
                /\ mk_out'[r].result = Some(OwnInfo(r))
                /\ mk_rows' = Append(mk_rows,
                                     [id |-> Len(mk_rows) + 1, user_id |-> UserId,
                                      keyword |-> OwnInfo(r).keyword,
                                      blog_url |-> OwnInfo(r).blog_url,
                                      log_no |-> OwnInfo(r).log_no,
                                      web_rank |-> OwnInfo(r).web_rank,
                                      blog_rank |-> OwnInfo(r).blog_rank])
       /\ \A r, q \in Requests :
             (r # q /\ Owned(r)' # Owned(r)) => Owned(q)' = Owned(q)
      ]_vars

\* C17 witness: two checks of the same keyword and URL are both between
\* their searches and their store, with different ranks, and a record of
\* neither is in the table yet.
C17_Witness ==
    /\ Returned("r1")
    /\ Returned("r2")
    /\ mk_in["r1"] = mk_in["r2"]
    /\ mk_loc["r1"].blog_rank = Some(1)
    /\ mk_loc["r2"].blog_rank = Some(2)
    /\ mk_rows = <<>>

\* The request got past the blank-field test and the identifier extraction.
Extractable(r) ==
    /\ mk_pc[r] \notin {"idle", "check"}
    /\ Strip(mk_in[r].keyword) # <<>>
    /\ Strip(mk_in[r].blog_url) # <<>>
    /\ ExtractLogno(mk_in[r].blog_url) # None

\* C19: a check with an extractable identifier calls the search service for
\* the blog category and then for the web category, each time with its
\* keyword, the window as count and start 1; the web call is made whatever
\* the blog call gave; once it has returned it made exactly these two calls.
C19_RankQueryProtocol ==
    \A r \in Requests :
        Extractable(r) =>
            LET calls == mk_calls[r]
                call(type, display) ==
                    [search_type |-> type, query |-> mk_in[r].keyword,
                     display |-> display, start |-> 1]
            IN  /\ mk_pc[r] = "blog" => calls = <<>>
                /\ mk_pc[r] = "web" =>
                      calls = <<call("blog", mk_loc[r].window)>>
                /\ Returned(r) =>
                      calls = <<call("blog", mk_loc[r].window),
                                call("web", mk_loc[r].window)>>
                /\ mk_pc[r] \in {"list", "done"} =>
                      \E w \in mk_env.windows :
                          calls = <<call("blog", w), call("web", w)>>
                /\ mk_svc[r].blog.st # "none" => mk_pc[r] \in {"web", "store"}

\* C19 witness: the blog call found the post at rank 1, and the web call
\* was made all the same, and failed.
C19_Witness ==
    \E r \in Requests :
        /\ Returned(r)
        /\ mk_loc[r].blog_rank = Some(1)
        /\ mk_svc[r].web.st = "failed"
        /\ Len(mk_calls[r]) = 2
        /\ mk_calls[r][2].search_type = "web"

\* The category's call failed for one of the requests and found nothing for
\* the other, or gave both the same.
Conflated(o1, o2, target) ==
    LET nothing(o) == o.st = "ok" /\ MatchingPositions(o.items, target[1]) = {}
    IN  \/ o1 = o2
        \/ o1.st = "failed" /\ nothing(o2)
        \/ o2.st = "failed" /\ nothing(o1)

\* C20: a category whose call failed and one whose call found no matching
\* item both leave the rank None, and two results that differ only in that
\* are equal, field for field: the returned value has no field that tells.
C20_FailureLooksLikeNoResult ==
    /\ \A r \in Requests :
          Returned(r) =>
             /\ mk_svc[r].blog.st = "failed" => mk_loc[r].blog_rank = None
             /\ mk_svc[r].web.st = "failed" => mk_loc[r].web_rank = None
             /\ DOMAIN RankInfo(mk_in[r], mk_loc[r]) =
                   {"keyword", "blog_url", "log_no", "web_rank", "blog_rank"}
    /\ \A r, q \in Requests :
          (/\ Returned(r) /\ Returned(q)
           /\ mk_in[r] = mk_in[q]
           /\ Conflated(mk_svc[r].blog, mk_svc[q].blog, mk_loc[r].target)
           /\ Conflated(mk_svc[r].web, mk_svc[q].web, mk_loc[r].target))
             => RankInfo(mk_in[r], mk_loc[r]) = RankInfo(mk_in[q], mk_loc[q])

\* C20 witness: for the same keyword and URL the blog call of one check
\* failed and that of the other answered with no item; the web calls found
\* the post at rank 1; the two results are equal.
C20_Witness ==
    /\ Returned("r1")
    /\ Returned("r2")
    /\ mk_in["r1"] = mk_in["r2"]
    /\ mk_svc["r1"].blog.st = "failed"
    /\ mk_svc["r2"].blog = Answered(<<>>)
    /\ mk_loc["r1"].web_rank = Some(1)
    /\ mk_loc["r2"].web_rank = Some(1)
    /\ RankInfo(mk_in["r1"], mk_loc["r1"]) = RankInfo(mk_in["r2"], mk_loc["r2"])

-----------------------------------------------------------------------------
(* Claims about the content fetcher.                                       *)

GetCount == Len(sc_gets)

GetOk(i) == sc_gets[i].outcome.st = "ok"

GetDoc(i) == sc_gets[i].outcome.doc

HasFrameSrc(doc) ==
    doc.iframe # None /\ doc.iframe[1] # None /\ doc.iframe[1][1] # <<>>

\* The call came to the selector loop: every GET it had to send was answered.
CameToExtract ==
    /\ sc_pc = "done"
    /\ GetCount >= 1
    /\ \A i \in 1..GetCount : GetOk(i)
    /\ GetCount = 2 \/ GetDoc(1).iframe = None

\* The document answered last.
ContentDoc == GetDoc(GetCount)

\* The first selector, in the fixed order, that matches in doc; 0 if none.
FirstMatching(doc) ==
    IF \A i \in 1..Len(Selectors) : doc.nodes[i] = None THEN 0
    ELSE CHOOSE i \in 1..Len(Selectors) :
            /\ doc.nodes[i] # None
            /\ \A j \in 1..(i - 1) : doc.nodes[j] = None

ContainerText(doc) ==
    IF FirstMatching(doc) = 0 THEN <<>> ELSE doc.nodes[FirstMatching(doc)][1]

BodyText(doc) == IF doc.body = None THEN <<>> ELSE doc.body[1]

\* The text the result is cut from.
SourceText(doc) ==
    IF ContainerText(doc) # <<>> THEN ContainerText(doc) ELSE BodyText(doc)

Cut(text) == SubSeq(text, 1, IF Len(text) < 8000 THEN Len(text) ELSE 8000)

ExtractionErrors == {NoBodyError, EmptyTextError}

\* What the call ends with when doc is the content document.
EndsAsFor(doc) ==
    IF SourceText(doc) = <<>>
    THEN sc_res[1].st = "raise" /\ sc_res[1].error \in ExtractionErrors
    ELSE sc_res[1] = Return(Cut(SourceText(doc)))

Absolute(src) == Head(src) = Origin

\* C22: frame source resolution.  The second GET goes to the platform's
\* origin followed by the frame source when the source is relative, and to
\* the source itself when it is absolute.
C22_FrameSourceResolution ==
    GetCount = 2 =>
        LET src == GetDoc(1).iframe[1][1]
        IN  sc_gets[2].url = IF Absolute(src) THEN src ELSE <<Origin>> \o src

C24_ContainerPriority ==
    CameToExtract /\ FirstMatching(ContentDoc) # 0 =>
        LET doc == ContentDoc
            text == doc.nodes[FirstMatching(doc)][1]
        IN  IF text # <<>> THEN sc_res = Some(Return(Cut(text)))
            ELSE IF BodyText(doc) # <<>> THEN sc_res = Some(Return(Cut(BodyText(doc))))
            ELSE sc_res[1].st = "raise"

\* The first selector matched a container without text, the second one a
\* container with text, and the body's text was returned.
C24_Witness ==
    /\ CameToExtract
    /\ ContentDoc.nodes[1] = Some(<<>>)
    /\ ContentDoc.nodes[2] = Some(<<"u">>)
    /\ sc_res = Some(Return(<<"b">>))

\* C25: body fallback and extraction error.  Without a matching selector, or
\* with a matched container without text, the result is the text of the body;
\* without a body, or with a body without text, the call ends with the
\* extraction error.  No text returned is empty.
C25_BodyFallback ==
    /\ CameToExtract /\ ContainerText(ContentDoc) = <<>> =>
        IF BodyText(ContentDoc) = <<>>
        THEN sc_res[1].st = "raise" /\ sc_res[1].error \in ExtractionErrors
        ELSE sc_res = Some(Return(Cut(BodyText(ContentDoc))))
    /\ sc_res # None /\ sc_res[1].st = "return" => Strip(sc_res[1].value) # <<>>

\* A container was matched, neither it nor the body had text, and the call
\* ended with the extraction error.
C25_Witness ==
    /\ CameToExtract
    /\ FirstMatching(ContentDoc) = 3
    /\ ContentDoc.body = Some(<<>>)
    /\ sc_res = Some(Raise(EmptyTextError))

\* C26: truncation.  A returned text has at most 8000 characters and is the
\* beginning of the extracted text; an extracted text of at most 8000
\* characters is returned as it is.
C26_Truncation ==
    CameToExtract /\ sc_res[1].st = "return" =>
        LET out == sc_res[1].value
            text == SourceText(ContentDoc)
        IN  /\ Len(out) <= 8000
            /\ Len(out) <= Len(text)
            /\ out = SubSeq(text, 1, Len(out))
            /\ Len(text) <= 8000 => out = text

\* A text of 8001 characters was cut to 8000.
C26_Witness ==
    /\ CameToExtract
    /\ Len(SourceText(ContentDoc)) = 8001
    /\ sc_res[1].st = "return"
    /\ Len(sc_res[1].value) = 8000

-----------------------------------------------------------------------------
(* Claims about the generation request builder's defaults.                 *)

Unset(x) == x = None \/ x = Some(<<>>)

\* C27: defaults.  Each optional field that is missing or the empty string
\* has its fixed, non-empty default in the prompt, and a field that was
\* filled in has the value given; an empty must_keywords or must_headings
\* list is the fixed "not specified" line; no value of the prompt is empty.
C27_Defaults ==
    pr_pc = "done" =>
        LET a == pr_in[1]
            out == pr_out[1]
        IN  /\ \A f \in OptionalFields :
                /\ Defaults[f] # <<>>
                /\ out[f] = IF Unset(a[f]) THEN Defaults[f] ELSE a[f][1]
            /\ SplitCsv(a.must_keywords) = <<>> =>
                out.must_keywords_block = NotSpecifiedLine
            /\ SplitCsv(a.must_headings) = <<>> =>
                out.must_headings_block = NotSpecifiedLine
            /\ \A slot \in DOMAIN out : out[slot] # <<>>

\* A prompt made from a missing product name, an empty tone, a brand that
\* was given and a must_keywords field without an item in it.
C27_Witness ==
    /\ pr_pc = "done"
    /\ pr_in[1].product_name = None
    /\ pr_in[1].tone = Some(<<>>)
    /\ pr_in[1].brand = Some(<<"v">>)
    /\ pr_in[1].must_keywords = Some(<<",">>)
    /\ pr_out[1].tone = Defaults.tone
    /\ pr_out[1].brand = <<"v">>
    /\ pr_out[1].must_keywords_block = NotSpecifiedLine

-----------------------------------------------------------------------------
(* Claims about the request boundary.                                      *)

\* The errors of the two GETs and of the iframe test, and the body a failed
\* POST /improvement answers with.
GetErrors ==
    {<<"fetch_failed", c>> : c \in {"timeout", "status"}}
    \cup {<<"iframe_src_missing">>}

Reports(r, e) ==
    /\ imp_pc'[r] = "done"
    /\ imp_out'[r] # None
    /\ imp_out'[r][1].success = FALSE
    /\ imp_out'[r][1].error = Some(e)
    /\ imp_rows' = imp_rows

\* A step of the fetch of POST /improvement either goes on with a document or
\* a text in hand, or ends the request with the error it raised.
FetchErrorsReported(r) ==
    /\ imp_pc[r] \in {"get1", "get2"} /\ imp_pc'[r] \notin {imp_pc[r], "aborted"} =>
        \/ /\ imp_pc'[r] \in {"get2", "extract"}
           /\ Len(imp_gets'[r]) = Len(imp_gets[r]) + 1
        \/ \E e \in GetErrors : Reports(r, e)
    /\ imp_pc[r] = "extract" /\ imp_pc'[r] \notin {"extract", "aborted"} =>
        IF SourceText(imp_loc[r].soup2[1]) = <<>>
        THEN \E e \in ExtractionErrors : Reports(r, e)
        ELSE imp_pc'[r] = "analyze" /\ imp_loc'[r].content # None

\* A rank lookup that finds no post id ends with the error of that cause;
\* the two searches after it never set an error.
RankErrorsReported(q) ==
    /\ mk_pc[q] = "check" /\ mk_pc'[q] # "check" =>
        IF ExtractLogno(mk_in[q].blog_url) \in {None, Some(<<>>)}
        THEN /\ mk_out'[q].error = Some(<<"rank_check_error", "no_logno">>)
             /\ mk_out'[q].result = None
             /\ mk_rows' = mk_rows
        ELSE mk_out'[q].error = None
    /\ mk_pc[q] \in {"blog", "web"} => mk_out'[q].error = None

\* C28: error propagation.  A failure of the fetch, of the extraction or of
\* the rank lookup ends the request with an answer that carries its message:
\* success false and the message for POST /improvement, an error holding the
\* message for POST /monitoring; only a failed search of one category goes by
\* without an error.
C28_ErrorsReachTheCaller ==
    [][/\ \A r \in ImpRequests : FetchErrorsReported(r)
       /\ \A q \in Requests : RankErrorsReported(q)]_vars

\* A POST /improvement request answered with the timeout of one of its GETs.
C28_Witness ==
    \E r \in ImpRequests :
        /\ imp_pc[r] = "done"
        /\ imp_out[r] # None
        /\ imp_out[r][1].success = FALSE
        /\ imp_out[r][1].error = Some(<<"fetch_failed", "timeout">>)

-----------------------------------------------------------------------------
(* Claims about the stored improvement records.                            *)

\* C29: version and analysis go together.  In every stored improvement
\* record analysis_version is "v1" when the stored structured analysis is not
\* null and null when it is null, and it is nothing else.
C29_VersionFollowsAnalysis ==
    \A i \in 1..Len(imp_rows) :
        LET row == imp_rows[i]
        IN  /\ row.analysis_version \in {None, Some("v1")}
            /\ row.analysis_version = Some("v1") <=> row.analysis_json # None
            /\ row.analysis_version = None <=> row.analysis_json = None

\* The table holds a record stored with its analysis and one stored without,
\* the second after the record schema rejected the analysis.
C29_Witness ==
    \E i, j \in 1..Len(imp_rows) :
        /\ imp_rows[i].analysis_json # None
        /\ imp_rows[i].analysis_version = Some("v1")
        /\ imp_rows[j].analysis_json = None
        /\ imp_rows[j].analysis_version = None
        /\ imp_rows[j].analysis_md = <<"{", "faq_no_a", "}">>

-----------------------------------------------------------------------------
(* Claims about blank form fields.                                         *)

\* Empty, or made of whitespace only.
Blank(s) == \A i \in 1..Len(s) : s[i] \in {" ", "\n"}

\* C30: blank required input.  A POST /monitoring request whose keyword or
\* URL is blank, and a POST /generator request whose core keyword is blank,
\* make no search or generation call, get an error and no result, and no
\* stored record carries a blank keyword or URL.
C30_BlankInputRejected ==
    /\ \A r \in Requests :
          mk_pc[r] \notin {"off", "idle"}
          /\ (Blank(mk_in[r].keyword) \/ Blank(mk_in[r].blog_url)) =>
              /\ mk_calls[r] = <<>>
              /\ mk_svc[r] = NoSvc
              /\ mk_out[r].error # None
              /\ mk_out[r].result = None
    /\ \A i \in 1..Len(mk_rows) :
          ~Blank(mk_rows[i].keyword) /\ ~Blank(mk_rows[i].blog_url)
    /\ \A g \in GenRequests :
          gen_pc[g] \notin {"off", "idle"} /\ Blank(gen_in[g]) =>
              /\ gen_calls[g] = 0
              /\ gen_pc[g] = "done"
              /\ gen_out[g].error # None
              /\ gen_out[g].result = None
    /\ \A i \in 1..Len(articles) : ~Blank(articles[i].core_keyword)

\* A finished POST /monitoring request with a keyword of one blank and a URL
\* that holds a post id, after another request stored its record.
C30_Witness ==
    \E r \in Requests :
        /\ mk_pc[r] = "done"
        /\ mk_in[r].keyword = <<" ">>
        /\ ExtractLogno(mk_in[r].blog_url) = Some(<<"1", "2">>)
        /\ mk_calls[r] = <<>>
        /\ mk_out[r].error # None
        /\ Len(mk_rows) = 1

=============================================================================
